---- MODULE Spec2Model ----
(***************************************************************************)
(* A model of lgc's PatchInOutImportExport pass                            *)
(* (src/lgc/patch/PatchInOutImportExport.cpp): the driver runImpl, the     *)
(* per-function lowering (visitCallInst / visitReturnInst), the position   *)
(* export 'done' marking and the tessellation-factor finalizer, together   *)
(* with the run-time behaviour of the generated tessellation-factor        *)
(* stores.                                                                 *)
(*                                                                         *)
(* An LLVM function is a sequence of items (calls, generated instructions, *)
(* block terminators), each tagged with its basic block.  An SSA value is  *)
(* a tuple <<tag, a, b>>.                                                   *)
(***************************************************************************)
EXTENDS Integers, Sequences, FiniteSets, TLC

VARIABLES
  cfg,                    \* PipelineState: read-only pipeline-wide state
  usage,                  \* ResourceUsage::builtInUsage per stage (mutable)
  expCount,               \* ResourceUsage::inOutUsage.expCount per stage
  calcFactor,             \* ResourceUsage::inOutUsage.tcs.calcFactor of the control shader
  calls,                  \* the abstract import/export calls of the module
  funcs,                  \* the functions of the module
  body,                   \* the instructions of every function
  pc,                     \* position of runImpl / processFunction
  stageIdx,               \* loop variable of the entry-point loop of runImpl
  fnIdx,                  \* loop variable of the non-entry-point loop of runImpl
  m_entryPoint,           \* function being processed (0: none)
  m_shaderStage,          \* its shader stage
  m_importCalls,          \* import calls to erase
  m_exportCalls,          \* export calls to erase
  m_clipDistance,         \* deferred gl_ClipDistance[]
  m_cullDistance,         \* deferred gl_CullDistance[]
  m_primitiveId,          \* deferred gl_PrimitiveID
  m_viewportIndex,        \* deferred gl_ViewportIndex
  m_layer,                \* deferred gl_Layer
  m_attribExports,        \* vertex-attribute export record: location -> 4 values
  m_expLocs,              \* locations written by generic exports
  m_tessLevelOuterInsts,  \* collected gl_TessLevelOuter write call-sites
  m_tessLevelInnerInsts,  \* collected gl_TessLevelInner write call-sites
  log,                    \* history: the order in which the pass did things
  tfBuffer,               \* run time: tessellation-factor buffer, dword -> value
  rtPos                   \* run time: next item of the control shader to execute

vars == <<cfg, usage, expCount, calcFactor, calls, funcs, body, pc, stageIdx, fnIdx,
          m_entryPoint, m_shaderStage, m_importCalls, m_exportCalls,
          m_clipDistance, m_cullDistance, m_primitiveId, m_viewportIndex, m_layer,
          m_attribExports, m_expLocs, m_tessLevelOuterInsts, m_tessLevelInnerInsts,
          log, tfBuffer, rtPos>>

-----------------------------------------------------------------------------
(* Bounds of the model *)

\* most calls of a module in the driver specification
MaxCalls == 3
\* most element writes of gl_TessLevelOuter and gl_TessLevelInner in the control
\* shader
MaxTessWrites == 2
\* largest element index of a tessellation-level write
MaxElemIdx == 3
\* patches of a thread group whose factor stores are executed
MaxPatch == 1

-----------------------------------------------------------------------------
(* Values *)

Null == <<"null", 0, 0>>
Undef == <<"undef", 0, 0>>
ConstFP(n) == <<"const", n, 0>>
\* the value operand (last argument) of call c
OutputOf(c) == <<"val", c, 0>>
\* extractvalue / extractelement i of v
Extract(v, i) == <<"elem", v, i>>
\* a function argument provided by the hardware
FunctionArgument(f, name) == <<"arg", f, name>>
BitCast(v) == <<"bitcast", v, 0>>
IsUndef(v) == v[1] = "undef"
IsNull(v) == v[1] = "null"

\* InvalidValue as an i32 (all bits set): a don't-care operand, and the offset
\* that makes the generated store function skip the store
InvalidValue == -1

ConstInt(n) == <<"const", n, 0>>
Add(a, b) == <<"add", a, b>>
Mul(a, b) == <<"mul", a, b>>
LShr(a, n) == <<"lshr", a, n>>
FSub(a, b) == <<"fsub", a, b>>
FAdd(a, b) == <<"fadd", a, b>>
\* icmp eq (srem v, 2), 0
IsEven(v) == <<"even", v, 0>>
Select(con, a, b) == <<"select", con, <<a, b>>>>
\* operand 'name' of call c, computed at run time
CallOperand(c, name) == <<"opnd", c, name>>
\* a value that PipelineSystemValues provides for function f
SystemValue(f, name) == <<"sys", f, name>>
\* the load of the emit counter of a stream
EmitCounter(streamId) == <<"emitCounter", streamId, 0>>

RECURSIVE SumSeq(_)
SumSeq(s) == IF s = <<>> THEN 0 ELSE Head(s) + SumSeq(Tail(s))

Pow2(n) == CASE n = 0 -> 1 [] n = 1 -> 2 [] n = 2 -> 4 [] n = 3 -> 8

SeqToSet(s) == {s[i] : i \in 1..Len(s)}

\* the elements of a set of integers in increasing order
SortedSeq(S) ==
  [k \in 1..Cardinality(S) |-> CHOOSE x \in S : Cardinality({y \in S : y < x}) = k - 1]

\* the indices of s whose element satisfies Test, in increasing order
SelectIdx(s, Test(_)) == SortedSeq({i \in 1..Len(s) : Test(s[i])})

Reverse(s) == [i \in 1..Len(s) |-> s[Len(s) + 1 - i]]

-----------------------------------------------------------------------------
(* Shader stages and functions *)

\* the entry-point loop in pipeline order, the vertex shader first
StageOrderForward == <<"vs", "tcs", "tes", "gs", "fs", "cs", "copy">>

\* the entry-point loop of runImpl runs from ShaderStageCountInternal - 1 down to 0
StageOrder == <<"copy", "cs", "fs", "gs", "tes", "tcs", "vs">>

Stages == SeqToSet(StageOrder)

\* m_hasTs, m_hasGs of runImpl
m_hasTs == cfg.stages \cap {"tcs", "tes"} # {}
m_hasGs == "gs" \in cfg.stages

\* PipelineState::getNextShaderStage: the next stage present in the pipeline
NextStageAfter(stage) ==
  LET after == CASE stage = "vs"  -> <<"tcs", "tes", "gs", "fs">>
                 [] stage = "tcs" -> <<"tes", "gs", "fs">>
                 [] stage = "tes" -> <<"gs", "fs">>
                 [] stage = "gs"  -> <<"fs">>
                 [] stage = "copy" -> <<"fs">>
                 [] OTHER -> <<>>
      present == SelectIdx(after, LAMBDA s : s \in cfg.stages)
  IN IF present = <<>> THEN "invalid" ELSE after[present[1]]

\* pipelineShaders.getEntryPoint(stage): index into funcs, 0 if none
EntryPointOf(stage) ==
  LET fs == {f \in 1..Len(funcs) :
               funcs[f].entry /\ funcs[f].stage = stage /\ ~funcs[f].decl}
  IN IF fs = {} THEN 0 ELSE CHOOSE f \in fs : TRUE

-----------------------------------------------------------------------------
(* Instructions *)

NoTarget == <<"none", 0>>
\* EXP_TARGET_POS_0 + n and EXP_TARGET_PARAM_0 + n
PosTarget(n) == <<"pos", n>>
ParamTarget(n) == <<"param", n>>

NoSrc == <<>>
\* the storage an instruction accesses: the memory and the offset of each dword
\* ('first': the element of the value of the call that the first dword holds)
NoAddr == [mem |-> "none", at |-> <<>>, first |-> 0]
Undef4 == <<Undef, Undef, Undef, Undef>>

\* an instruction: kind k, what it carries, the call-site it was generated for
\* (0: none), and for an "exp" its target, channel mask, sources and done flag
Item(k, what, id, tgt, en, src) ==
  [k |-> k, what |-> what, blk |-> "", id |-> id, tgt |-> tgt, en |-> en,
   src |-> src, done |-> FALSE, addr |-> NoAddr, base |-> <<>>, value |-> <<>>,
   stored |-> <<>>]

\* an instruction that is no export
Inst(k, what, id, src) == Item(k, what, id, NoTarget, 0, src)

\* a block terminator or an abstract call of the input module
InBlock(blk, item) == [item EXCEPT !.blk = blk]

\* position of the abstract call c in a function body
PosOfCall(b, c) == CHOOSE i \in 1..Len(b) : b[i].k = "call" /\ b[i].id = c

IsTerminator(item) == item.k \in {"br", "switch", "ret"}

\* BasicBlock::getTerminator
PosOfTerminator(b, blk) == CHOOSE i \in 1..Len(b) : b[i].blk = blk /\ IsTerminator(b[i])

\* an insert position is <<"call", c>> (before call c) or <<"term", blk>>
InsertPos(b, at) ==
  IF at[1] = "call" THEN PosOfCall(b, at[2]) ELSE PosOfTerminator(b, at[2])

\* insert the instructions 'items' before position p, all in the block of b[p]
InsertBefore(b, p, items) ==
  SubSeq(b, 1, p - 1)
    \o [i \in 1..Len(items) |-> [items[i] EXCEPT !.blk = b[p].blk]]
    \o SubSeq(b, p, Len(b))

\* the state one visit works on: the body of m_entryPoint and the members of the
\* pass and of the resource usage that a visit can change
Visit0 ==
  [unreachable |-> FALSE, asserted |-> FALSE,
   body |-> body[m_entryPoint],
   usage |-> usage[m_shaderStage], expCount |-> expCount[m_shaderStage],
   clip |-> m_clipDistance, cull |-> m_cullDistance, prim |-> m_primitiveId,
   vp |-> m_viewportIndex, layer |-> m_layer,
   attrib |-> m_attribExports, expLocs |-> m_expLocs,
   imports |-> m_importCalls, exports |-> m_exportCalls,
   outer |-> m_tessLevelOuterInsts, inner |-> m_tessLevelInnerInsts]

Emit(st, at, item) ==
  [st EXCEPT !.body = InsertBefore(@, InsertPos(@, at), <<item>>)]

Unreachable(st) == [st EXCEPT !.unreachable = TRUE]

Max(a, b) == IF a >= b THEN a ELSE b
Min(a, b) == IF a <= b THEN a ELSE b

-----------------------------------------------------------------------------
(* Exports of the last vertex-processing stage *)

\* whether the stage uses "exp" instructions to export its outputs
UseExpInst(stage) ==
  /\ stage \in {"vs", "tes", "copy"}
  /\ NextStageAfter(stage) \in {"invalid", "fs"}

\* builtInOutputLocMap / gs.builtInOutLocs of the stage being processed
BuiltInOutLoc(builtInId) == cfg.builtInOutLoc[builtInId]

\* recordVertexAttribExport that replaces the entry of the location
recordVertexAttribExportReplacing(st, location, attribValues) ==
  [st EXCEPT !.attrib = (location :> attribValues) @@ @,
             !.expCount = Max(@, location + 1)]

recordVertexAttribExport(st, location, attribValues) ==
  LET old == IF location \in DOMAIN st.attrib THEN st.attrib[location] ELSE Undef4
      overlap == \E i \in 1..4 : ~IsUndef(attribValues[i]) /\ ~IsUndef(old[i])
      new == [i \in 1..4 |-> IF IsUndef(attribValues[i]) THEN old[i] ELSE attribValues[i]]
  IN [st EXCEPT !.attrib = (location :> new) @@ @,
                !.expCount = Max(@, location + 1),
                !.asserted = @ \/ overlap]

\* a channel mask that enables all four channels
ChannelMaskAllEnabled(values) == 15

\* the channel mask of an attribute export: bit i set iff value i is not undef
ChannelMask(values) ==
  SumSeq([i \in 1..4 |-> IF IsUndef(values[i]) THEN 0 ELSE Pow2(i - 1)])

\* one export per recorded location on targets up to GFX10; later targets are
\* not implemented
exportVertexAttribs(st, at) ==
  LET locs == SortedSeq(DOMAIN st.attrib)
      exps == [i \in 1..Len(locs) |->
                 Item("exp", "attrib", 0, ParamTarget(locs[i]),
                      ChannelMask(st.attrib[locs[i]]), st.attrib[locs[i]])]
  IN [st EXCEPT !.body = IF cfg.gfx <= 10 THEN InsertBefore(@, InsertPos(@, at), exps) ELSE @,
                !.unreachable = @ \/ (locs # <<>> /\ cfg.gfx > 10),
                !.asserted = @ \/ (locs = <<>> /\ st.expCount # 0)]

\* zero extension of an 8- or 16-bit value to 32 bits
ZExt(v) == <<"zext", v, 0>>

\* the output as <numChannels x float>: an 8- or 16-bit value is zero-extended to
\* 32 bits and cast, a 64-bit value is cast to two floats per component, a float
\* is exported as it is
ExportValue(output, bitWidth) ==
  CASE bitWidth \in {8, 16} -> BitCast(ZExt(output))
    [] bitWidth = 64 -> BitCast(output)
    [] OTHER -> output

addExportInstForGenericOutput(st, output, location, compIdx, compCount, bitWidth) ==
  LET numChannels == IF bitWidth = 64 THEN compCount * 2 ELSE compCount
      startChannel == IF bitWidth = 64 THEN compIdx * 2 ELSE compIdx
      exportInst == ExportValue(output, bitWidth)
      exportValues == [i \in 1..numChannels |->
                         IF numChannels = 1 THEN exportInst ELSE Extract(exportInst, i - 1)]
      attribValues ==
        [i \in 1..8 |-> IF i - 1 >= startChannel /\ i - 1 < startChannel + numChannels
                        THEN exportValues[i - startChannel]
                        ELSE Undef]
      checked ==
        [st EXCEPT !.expLocs = @ \cup {location},
                   !.asserted = @ \/ ~UseExpInst(m_shaderStage)
                                  \/ (IF numChannels <= 4
                                        THEN startChannel + numChannels > 4
                                        ELSE startChannel # 0 \/ numChannels \notin {6, 8})]
      first == recordVertexAttribExport(checked, location, SubSeq(attribValues, 1, 4))
  IN IF numChannels <= 4 THEN first
     ELSE recordVertexAttribExport([first EXCEPT !.expLocs = @ \cup {location + 1}],
                                   location + 1, SubSeq(attribValues, 5, 8))

\* the generic-output mirror of gl_Layer / gl_ViewportIndex made at the call-site
MirrorBuiltIn(st, builtInId, value, wanted) ==
  IF wanted
    THEN recordVertexAttribExport(st, BuiltInOutLoc(builtInId), <<value, Undef, Undef, Undef>>)
    ELSE st

addExportInstForBuiltInOutput(st, output, builtInId, at, id) ==
  LET assertedStage == [st EXCEPT !.asserted = @ \/ ~UseExpInst(m_shaderStage)]
      s == IF builtInId \in {"Layer", "ViewportIndex"}
             THEN [assertedStage EXCEPT !.asserted = @ \/ cfg.gfx > 8]
             ELSE assertedStage
  IN CASE builtInId = "Position" ->
            Emit(s, at, Item("exp", "Position", id, PosTarget(0), 15,
                             [i \in 1..4 |-> Extract(output, i - 1)]))
       [] builtInId = "PointSize" ->
            Emit(s, at, Item("exp", "PointSize", id, PosTarget(1), 1,
                             <<output, Undef, Undef, Undef>>))
       [] builtInId = "Layer" ->
            MirrorBuiltIn(
              Emit(s, at, Item("exp", "Layer", id, PosTarget(1), 4,
                               <<Undef, Undef, BitCast(output), Undef>>)),
              IF cfg.multiView THEN "ViewIndex" ELSE "Layer", BitCast(output),
              cfg.fs.layer \/ cfg.fs.viewIndex)
       [] builtInId = "ViewportIndex" ->
            MirrorBuiltIn(
              Emit(s, at, Item("exp", "ViewportIndex", id, PosTarget(1), 8,
                               <<Undef, Undef, Undef, BitCast(output)>>)),
              "ViewportIndex", BitCast(output), cfg.fs.viewportIndex)
       [] OTHER -> Unreachable(s)

-----------------------------------------------------------------------------
(* Storage offsets *)

\* operand 'name' of call c: the constant InvalidValue for a don't-care operand
OperandValue(c, name) ==
  CASE calls[c][name][1] = "none" -> ConstInt(InvalidValue)
    [] calls[c][name][1] = "const" -> ConstInt(calls[c][name][2])
    [] OTHER -> CallOperand(c, name)

isDontCareValue(v) == v[1] = "const" /\ v[2] = InvalidValue

\* isDontCareValue(operand) ? nullptr : operand
OperandOrNull(c, name) ==
  IF isDontCareValue(OperandValue(c, name)) THEN Null ELSE OperandValue(c, name)

\* the location offset of a tessellation shader's call: a constant offset is
\* added to the location before the location is mapped, and rebased to 0
RebasedLocOffset(c) ==
  IF calls[c].locOffset[1] = "dyn" THEN CallOperand(c, "locOffset") ELSE ConstInt(0)

\* the element index of a generic call: the constant component, or the operand
\* computed at run time
GenericElemIdx(c) ==
  IF calls[c].elem[1] = "none" THEN ConstInt(calls[c].comp) ELSE OperandValue(c, "elem")

calcLdsOffsetForVsOutput(bitWidth, location, compIdx) ==
  LET attribOffset == Add(ConstInt(location * 4),
                          ConstInt(IF bitWidth = 64 THEN compIdx * 2 ELSE compIdx))
      relVertexId == FunctionArgument(m_entryPoint, "relVertexId")
      vertexStride == ConstInt(calcFactor.inVertexStride)
  IN Add(Mul(relVertexId, vertexStride), attribOffset)

\* AttribOffset that does not double the component index of a 64-bit type
AttribOffsetNoDoubling(bitWidth, location, locOffset, compIdx) ==
  LET base == IF IsNull(locOffset) THEN ConstInt(location)
              ELSE Add(ConstInt(location), locOffset)
      scaled == Mul(base, ConstInt(4))
  IN IF IsNull(compIdx) THEN scaled ELSE Add(scaled, compIdx)

\* attribOffset = (location + locOffset) * 4 + compIdx, the component index of
\* a 64-bit type multiplied by 2
AttribOffset(bitWidth, location, locOffset, compIdx) ==
  LET base == IF IsNull(locOffset) THEN ConstInt(location)
              ELSE Add(ConstInt(location), locOffset)
      scaled == Mul(base, ConstInt(4))
  IN IF IsNull(compIdx) THEN scaled
     ELSE Add(scaled, IF bitWidth = 64 THEN Mul(compIdx, ConstInt(2)) ELSE compIdx)

calcLdsOffsetForTcsInput(bitWidth, location, locOffset, compIdx, vertexIdx) ==
  LET attribOffset == AttribOffset(bitWidth, location, locOffset, compIdx)
      inVertexCount == ConstInt(cfg.tess.patchControlPoints)
      relativeId == SystemValue(m_entryPoint, "relativeId")
      vertex == Add(Mul(relativeId, inVertexCount), vertexIdx)
  IN Add(Mul(vertex, ConstInt(calcFactor.inVertexStride)), attribOffset)

calcLdsOffsetForTcsOutput(bitWidth, location, locOffset, compIdx, vertexIdx) ==
  LET outPatchStart == IF cfg.tess.offChip THEN calcFactor.offChip.outPatchStart
                       ELSE calcFactor.onChip.outPatchStart
      patchConstStart == IF cfg.tess.offChip THEN calcFactor.offChip.patchConstStart
                         ELSE calcFactor.onChip.patchConstStart
      attribOffset == AttribOffset(bitWidth, location, locOffset, compIdx)
      perPatch == IsNull(vertexIdx)
      relativeId == SystemValue(m_entryPoint, "relativeId")
  IN IF perPatch
       THEN Add(Add(Mul(relativeId, ConstInt(calcFactor.patchConstSize)),
                    ConstInt(patchConstStart)),
                attribOffset)
       ELSE Add(Add(Add(Mul(relativeId, ConstInt(calcFactor.outPatchSize)),
                        ConstInt(outPatchStart)),
                    Mul(vertexIdx, ConstInt(calcFactor.outVertexStride))),
                attribOffset)

\* calcLdsOffsetForTesInput that takes the region starts of on-chip tessellation
\* whatever isTessOffChip() is
calcLdsOffsetForTesInputOnChip(bitWidth, location, locOffset, compIdx, vertexIdx) ==
  LET outPatchStart == calcFactor.onChip.outPatchStart
      patchConstStart == calcFactor.onChip.patchConstStart
      attribOffset == AttribOffset(bitWidth, location, locOffset, compIdx)
      perPatch == IsNull(vertexIdx)
      relPatchId == FunctionArgument(m_entryPoint, "relPatchId")
  IN IF perPatch
       THEN Add(Add(Mul(relPatchId, ConstInt(calcFactor.patchConstSize)),
                    ConstInt(patchConstStart)),
                attribOffset)
       ELSE Add(Add(Add(Mul(relPatchId, ConstInt(calcFactor.outPatchSize)),
                        ConstInt(outPatchStart)),
                    Mul(vertexIdx, ConstInt(calcFactor.outVertexStride))),
                attribOffset)

calcLdsOffsetForTesInput(bitWidth, location, locOffset, compIdx, vertexIdx) ==
  LET outPatchStart == IF cfg.tess.offChip THEN calcFactor.offChip.outPatchStart
                       ELSE calcFactor.onChip.outPatchStart
      patchConstStart == IF cfg.tess.offChip THEN calcFactor.offChip.patchConstStart
                         ELSE calcFactor.onChip.patchConstStart
      attribOffset == AttribOffset(bitWidth, location, locOffset, compIdx)
      perPatch == IsNull(vertexIdx)
      relPatchId == FunctionArgument(m_entryPoint, "relPatchId")
  IN IF perPatch
       THEN Add(Add(Mul(relPatchId, ConstInt(calcFactor.patchConstSize)),
                    ConstInt(patchConstStart)),
                attribOffset)
       ELSE Add(Add(Add(Mul(relPatchId, ConstInt(calcFactor.outPatchSize)),
                        ConstInt(outPatchStart)),
                    Mul(vertexIdx, ConstInt(calcFactor.outVertexStride))),
                attribOffset)

\* the ES-GS ring is in the LDS if the geometry shader is on-chip, and from GFX9
EsGsRingOnChip == cfg.gsOnChip \/ cfg.gfx >= 9

calcEsGsRingOffsetForOutput(location, compIdx, esGsOffset) ==
  IF EsGsRingOnChip
    THEN Add(Add(Mul(SystemValue(m_entryPoint, "threadId"),
                     ConstInt(cfg.gs.esGsRingItemSize)),
                 LShr(esGsOffset, 2)),
             ConstInt(location * 4 + compIdx))
    ELSE ConstInt((location * 4 + compIdx) * 4)

\* streamBases[streamId]: the dwords of the streams before streamId
StreamBase(streamId) ==
  SumSeq([i \in 1..streamId |-> cfg.gs.outLocCount[i] * cfg.gs.outputVertices * 4])

calcGsVsRingOffsetForOutput(location, compIdx, streamId, vertexIdx, gsVsOffset) ==
  IF cfg.gsOnChip
    THEN LET esGsLdsSize == ConstInt(cfg.gs.esGsLdsSize)
             ringItemOffset == Mul(SystemValue(m_entryPoint, "threadId"),
                                   ConstInt(cfg.gs.gsVsRingItemSize))
             vertexSize == cfg.gs.outLocCount[streamId + 1] * 4
             vertexItemOffset == Mul(vertexIdx, ConstInt(vertexSize))
             attribOffset == (location * 4) + compIdx + StreamBase(streamId)
         IN Add(Add(Add(Add(esGsLdsSize, LShr(gsVsOffset, 2)), ringItemOffset),
                    vertexItemOffset),
                ConstInt(attribOffset))
    ELSE Mul(Add(ConstInt((location * 4 + compIdx) * cfg.gs.outputVertices), vertexIdx),
             ConstInt(4))

\* the number of dwords of a value
NumChannels(bitWidth, compCount) == compCount * (IF bitWidth = 64 THEN 2 ELSE 1)

\* combineBufferStore and combineBufferLoad: the most dwords, of 4, 3, 2 and 1
\* (GFX6 has no 3-dword access), that the 'size' dwords still have from startIdx
CombineCount(startIdx, size) ==
  LET counts == {compCount \in 1..4 : /\ ~(cfg.gfx = 6 /\ compCount = 3)
                                      /\ startIdx + compCount <= size}
  IN CHOOSE compCount \in counts : \A other \in counts : other <= compCount

\* the accesses <<startIdx, compCount>> of the loop 'for (i = 0; i < numChannels;)
\* i += combineBuffer...(i)'
RECURSIVE CombinedAccesses(_, _)
CombinedAccesses(i, numChannels) ==
  IF i >= numChannels THEN <<>>
  ELSE <<<<i, CombineCount(i, numChannels)>>>>
       \o CombinedAccesses(i + CombineCount(i, numChannels), numChannels)

\* the byte offset of dword i (from 0) from the offset of the value: that of
\* the access which has the dword, startIdx * 4, and 4 per dword of the access
ChannelByteOffset(i, numChannels) ==
  LET accesses == CombinedAccesses(0, numChannels)
      k == CHOOSE k \in 1..Len(accesses) :
             accesses[k][1] <= i /\ i < accesses[k][1] + accesses[k][2]
  IN accesses[k][1] * 4 + (i - accesses[k][1]) * 4

\* the dwords that readValueFromLds and writeValueToLds access: consecutive
\* dwords of the LDS, or the dwords of the accesses to the off-chip LDS buffer
\* from the byte offset ldsOffset * 4
LdsAddr(offChip, ldsOffset, numChannels) ==
  IF offChip
    THEN [mem |-> "offChipLds",
          at |-> [i \in 1..numChannels |->
                    Add(Mul(ldsOffset, ConstInt(4)),
                        ConstInt(ChannelByteOffset(i - 1, numChannels)))],
          first |-> 0]
    ELSE [mem |-> "lds",
          at |-> [i \in 1..numChannels |-> Add(ldsOffset, ConstInt(i - 1))],
          first |-> 0]

\* The value of an offset in an invocation. env: the system values and function
\* arguments of the invocation; an operand computed at run time has the value
\* that its call names, gl_InvocationID that of the invocation.
RECURSIVE Eval(_, _)
Eval(v, env) ==
  CASE v[1] = "const" -> v[2]
    [] v[1] = "add" -> Eval(v[2], env) + Eval(v[3], env)
    [] v[1] = "mul" -> Eval(v[2], env) * Eval(v[3], env)
    [] v[1] = "lshr" -> Eval(v[2], env) \div (2 ^ v[3])
    [] v[1] = "opnd" -> IF calls[v[2]][v[3]][1] = "id" THEN env.invocationId
                        ELSE calls[v[2]][v[3]][2]
    [] v[1] = "sys" -> env[v[3]]
    [] v[1] = "arg" -> env[v[3]]
    [] v[1] = "emitCounter" -> env.emitCounter

-----------------------------------------------------------------------------
(* Values at run time *)

\* A float between -2 and 2 is counted in units of 2^-26.
FloatOne == 2 ^ 26

RECURSIVE BitLength(_)
BitLength(n) == IF n = 0 THEN 0 ELSE 1 + BitLength(n \div 2)

\* the float nearest to n units: 24 bits of significand, ties to even
RoundToFloat(n) ==
  LET a == IF n < 0 THEN 0 - n ELSE n
      q == 2 ^ (IF BitLength(a) > 24 THEN BitLength(a) - 24 ELSE 0)
      low == (a \div q) * q
      up == IF 2 * (a - low) > q \/ (2 * (a - low) = q /\ (a \div q) % 2 = 1)
              THEN low + q ELSE low
  IN IF n < 0 THEN 0 - up ELSE up

\* what the instructions of a float value compute in an invocation
RECURSIVE EvalFloat(_, _)
EvalFloat(v, env) ==
  CASE v[1] = "const" -> v[2] * FloatOne
    [] v[1] = "fsub" -> RoundToFloat(EvalFloat(v[2], env) - EvalFloat(v[3], env))
    [] v[1] = "fadd" -> RoundToFloat(EvalFloat(v[2], env) + EvalFloat(v[3], env))
    [] v[1] = "elem" -> env[v[2][3]][v[3] + 1]
    [] v[1] = "select" -> IF env[v[2][2][3]] % 2 = 0 THEN EvalFloat(v[3][1], env)
                          ELSE EvalFloat(v[3][2], env)

\* A value at run time is the sequence of its elements (a scalar has one), an
\* element the sequence of its bytes, the least significant first.
Zeros(n) == [b \in 1..n |-> 0]

\* the bit patterns of an element of bitWidth bits: all zero, all one, a quiet
\* NaN with a payload (of the floating-point type of the width), and bytes
\* that differ from each other and have the top bit set
PatternBytes(pattern, bitWidth) ==
  LET n == bitWidth \div 8 IN
  CASE pattern = "zero" -> Zeros(n)
    [] pattern = "ones" -> [b \in 1..n |-> 255]
    [] pattern = "nan" ->
         [b \in 1..n |->
            IF b = n THEN 127
            ELSE IF b = n - 1 THEN (IF n = 2 THEN 126 ELSE IF n = 4 THEN 192 ELSE 248)
            ELSE IF b = 1 THEN 1 ELSE 0]
    [] pattern = "mixed" -> [b \in 1..n |-> 128 + b]

\* the value that call c hands over at run time, as a value of compCount
\* elements of bitWidth bits: the bit patterns of the call from element 'first'
RuntimeValue(c, first, bitWidth, compCount) ==
  [i \in 1..compCount |-> PatternBytes(calls[c].data[((first + i - 1) % 4) + 1], bitWidth)]

BitWidthOf(value) == Len(value[1]) * 8

\* the bytes of a value, element after element
Bytes(value) ==
  LET n == Len(value[1])
  IN [k \in 1..(Len(value) * n) |-> value[((k - 1) \div n) + 1][((k - 1) % n) + 1]]

\* BitCastInst to a vector of elements of bitWidth bits (or to the scalar)
BitCastTo(value, bitWidth) ==
  LET n == bitWidth \div 8
      bytes == Bytes(value)
  IN [i \in 1..(Len(bytes) \div n) |-> SubSeq(bytes, (i - 1) * n + 1, i * n)]

\* TruncInst that keeps the low byte only
TruncToByte(elem, bitWidth) == SubSeq(elem, 1, 1)

\* ZExtInst and TruncInst of one element to bitWidth bits
ZExtTo(elem, bitWidth) == elem \o Zeros((bitWidth \div 8) - Len(elem))
TruncTo(elem, bitWidth) == SubSeq(elem, 1, bitWidth \div 8)

\* writeValueToLds, the dwords it stores: the value cast to numChannels integers
\* (of the width of an 8-bit or 16-bit type, else of 32 bits), each 8-bit or
\* 16-bit one zero-extended to a dword
StoreValues(value) ==
  LET bitWidth == BitWidthOf(value)
      numChannels == NumChannels(bitWidth, Len(value))
      castValue == BitCastTo(value, IF bitWidth \in {8, 16} THEN bitWidth ELSE 32)
  IN [i \in 1..numChannels |->
        IF bitWidth \in {8, 16} THEN ZExtTo(castValue[i], 32) ELSE castValue[i]]

\* readValueFromLds, the value it builds from the dwords it loaded: each dword
\* truncated to an 8-bit or 16-bit integer if the type has this width, the
\* integers cast to the type
ReadValue(bitWidth, compCount, loadValues) ==
  LET numChannels == NumChannels(bitWidth, compCount)
      castValue == [i \in 1..numChannels |->
                      IF bitWidth \in {8, 16} THEN TruncTo(loadValues[i], bitWidth)
                      ELSE loadValues[i]]
  IN BitCastTo(castValue, bitWidth)

-----------------------------------------------------------------------------
(* visitCallInst: built-in output exports *)

\* an instruction and the storage it accesses
At(inst, addr) == [inst EXCEPT !.addr = addr]

\* a store of 'value' whose marshaller got the offset 'base'
Storing(inst, base, value, stored) ==
  [inst EXCEPT !.base = base, !.value = value, !.stored = stored]

\* the type of a built-in output: bit width and component count
BuiltInBitWidth == 32
BuiltInCompCount(builtInId) == IF builtInId = "Position" THEN 4 ELSE 1

\* the elements of a gl_ClipDistance[] or gl_CullDistance[] output of the
\* vertex shader, each written on its own: ldsOffset advances by 1 per element
ElementWrites(k, builtInId, c, output) ==
  LET ldsOffset == calcLdsOffsetForVsOutput(BuiltInBitWidth, BuiltInOutLoc(builtInId), 0)
  IN [i \in 1..calls[c].cnt |->
        LET elem == RuntimeValue(c, i - 1, BuiltInBitWidth, 1)
            elemOffset == Add(ldsOffset, ConstInt(i - 1))
        IN Storing(At(Inst(k, builtInId, c, <<Extract(output, i - 1)>>),
                      [LdsAddr(FALSE, elemOffset, 1) EXCEPT !.first = i - 1]),
                   elemOffset, elem, StoreValues(elem))]

\* the elements of a gl_ClipDistance[] or gl_CullDistance[] output of the
\* control shader, each written at the element index i
TcsElementWrites(k, builtInId, c, output, vertexIdx) ==
  [i \in 1..calls[c].cnt |->
     LET elem == RuntimeValue(c, i - 1, BuiltInBitWidth, 1)
         ldsOffset == calcLdsOffsetForTcsOutput(BuiltInBitWidth, BuiltInOutLoc(builtInId),
                                                Null, ConstInt(i - 1), vertexIdx)
     IN Storing(At(Inst(k, builtInId, c, <<Extract(output, i - 1)>>),
                   [LdsAddr(cfg.tess.offChip, ldsOffset, 1) EXCEPT !.first = i - 1]),
                ldsOffset, elem, StoreValues(elem))]

EmitAll(st, at, items) ==
  [st EXCEPT !.body = InsertBefore(@, InsertPos(@, at), items)]

\* writeValueToLds: one store per dword, to the off-chip LDS buffer if
\* tessellation is off-chip and the stage is the control shader
writeValueToLds(st, builtInId, c, output, bitWidth, compCount, ldsOffset) ==
  LET writeValue == RuntimeValue(c, 0, bitWidth, compCount)
  IN Emit(st, <<"call", c>>,
          Storing(At(Inst("ldsWrite", builtInId, c, <<output>>),
                     LdsAddr(cfg.tess.offChip /\ m_shaderStage = "tcs", ldsOffset,
                             NumChannels(bitWidth, compCount))),
                  ldsOffset, writeValue, StoreValues(writeValue)))

\* storeValueToEsGsRing: element i of a vector or an array goes to location +
\* (compIdx + i) / 4, component (compIdx + i) % 4, as a dword: an 8-bit or 16-bit
\* element zero-extended. The base of the store is the dword location * 4 +
\* compIdx of the vertex.
storeValueToEsGsRing(st, builtInId, c, output, storeValue, location, compIdx) ==
  LET esGsOffset == FunctionArgument(m_entryPoint, "esGsOffset")
      bitWidth == BitWidthOf(storeValue)
      ringOffset(i) ==
        calcEsGsRingOffsetForOutput(location + ((compIdx + i) \div 4), (compIdx + i) % 4,
                                    esGsOffset)
      addr == [mem |-> IF EsGsRingOnChip THEN "lds" ELSE "esGsRing",
               at |-> [i \in 1..Len(storeValue) |-> ringOffset(i - 1)], first |-> 0]
      stored == [i \in 1..Len(storeValue) |->
                   IF bitWidth \in {8, 16} THEN ZExtTo(storeValue[i], 32) ELSE storeValue[i]]
  IN Emit([st EXCEPT !.asserted = @ \/ bitWidth \notin {8, 16, 32}
                                     \/ m_shaderStage \notin {"vs", "tes"}],
          <<"call", c>>,
          Storing(At(Inst("esGsRingStore", builtInId, c, <<output>>), addr),
                  ConstInt(location * 4 + compIdx), storeValue, stored))

\* loadValueFromEsGsRing: element i of a vector or an array comes from location
\* + (compIdx + i) / 4, component (compIdx + i) % 4: the dword of the LDS, or the
\* float of the ring buffer cast to a dword, truncated to an 8-bit or 16-bit
\* type. ring: the dwords of the vertex, by location * 4 + component.
loadValueFromEsGsRing(bitWidth, elemCount, location, compIdx, ring) ==
  [i \in 1..elemCount |->
     LET elemLocation == location + ((compIdx + i - 1) \div 4)
         elemCompIdx == (compIdx + i - 1) % 4
         loadValue == ring[elemLocation * 4 + elemCompIdx]
     IN IF bitWidth \in {8, 16} THEN TruncTo(loadValue, bitWidth) ELSE loadValue]

\* the value of a built-in output of the vertex or evaluation shader
BuiltInValue(c, builtInId) ==
  RuntimeValue(c, 0, BuiltInBitWidth,
               IF builtInId \in {"ClipDistance", "CullDistance"} THEN calls[c].cnt
               ELSE BuiltInCompCount(builtInId))

\* a generic output on its way to the ES-GS ring: a 64-bit value is cast to
\* twice as many floats and stored from twice the component
storeGenericToEsGsRing(st, c, output) ==
  LET value == RuntimeValue(c, 0, calls[c].bits, calls[c].cnt)
  IN IF calls[c].bits = 64
       THEN storeValueToEsGsRing(st, "generic", c, BitCast(output), BitCastTo(value, 32),
                                 calls[c].loc, calls[c].comp * 2)
       ELSE storeValueToEsGsRing(st, "generic", c, output, value, calls[c].loc,
                                 calls[c].comp)

GsVsRing(streamId) == <<"gsVsRing0", "gsVsRing1", "gsVsRing2", "gsVsRing3">>[streamId + 1]

\* storeValueToGsVsRing: with NGG a call that a later pass replaces; otherwise
\* element i of a vector or an array goes to location + (compIdx + i) / 4,
\* component (compIdx + i) % 4 of the vertex that the emit counter counts
storeValueToGsVsRing(st, builtInId, c, output, elemCount, location, compIdx, streamId) ==
  LET gsVsOffset == FunctionArgument(m_entryPoint, "gsVsOffset")
      ringOffset(i) ==
        calcGsVsRingOffsetForOutput(location + ((compIdx + i) \div 4), (compIdx + i) % 4,
                                    streamId, EmitCounter(streamId), gsVsOffset)
      addr == IF cfg.ngg THEN NoAddr
              ELSE [mem |-> IF cfg.gsOnChip THEN "lds" ELSE GsVsRing(streamId),
                    at |-> [i \in 1..elemCount |-> ringOffset(i - 1)], first |-> 0]
  IN Emit(st, <<"call", c>>, At(Inst("gsVsRingStore", builtInId, c, <<output>>), addr))

patchVsBuiltInOutputExport(st, output, builtInId, c) ==
  LET at == <<"call", c>> IN
  CASE builtInId = "Position" ->
         IF ~st.usage.position THEN st
         ELSE IF m_hasTs
           THEN writeValueToLds(st, builtInId, c, output, BuiltInBitWidth, 4,
                                calcLdsOffsetForVsOutput(BuiltInBitWidth,
                                                         BuiltInOutLoc(builtInId), 0))
         ELSE IF m_hasGs
           THEN storeValueToEsGsRing(st, builtInId, c, output, BuiltInValue(c, builtInId),
                                     BuiltInOutLoc(builtInId), 0)
         ELSE addExportInstForBuiltInOutput(st, output, builtInId, at, c)
    [] builtInId = "PointSize" ->
         IF ~st.usage.pointSize THEN st
         ELSE IF IsUndef(output) THEN [st EXCEPT !.usage.pointSize = FALSE]
         ELSE IF m_hasTs
           THEN writeValueToLds(st, builtInId, c, output, BuiltInBitWidth, 1,
                                calcLdsOffsetForVsOutput(BuiltInBitWidth,
                                                         BuiltInOutLoc(builtInId), 0))
         ELSE IF m_hasGs
           THEN storeValueToEsGsRing(st, builtInId, c, output, BuiltInValue(c, builtInId),
                                     BuiltInOutLoc(builtInId), 0)
         ELSE addExportInstForBuiltInOutput(st, output, builtInId, at, c)
    [] builtInId = "ClipDistance" ->
         IF st.usage.clipDistance = 0 THEN st
         ELSE IF IsUndef(output) THEN [st EXCEPT !.usage.clipDistance = 0]
         ELSE IF m_hasTs THEN EmitAll(st, at, ElementWrites("ldsWrite", builtInId, c, output))
         ELSE IF m_hasGs
           THEN storeValueToEsGsRing(st, builtInId, c, output, BuiltInValue(c, builtInId),
                                     BuiltInOutLoc(builtInId), 0)
         ELSE [st EXCEPT !.clip = output]
    [] builtInId = "CullDistance" ->
         IF st.usage.cullDistance = 0 THEN st
         ELSE IF IsUndef(output) THEN [st EXCEPT !.usage.cullDistance = 0]
         ELSE IF m_hasTs THEN EmitAll(st, at, ElementWrites("ldsWrite", builtInId, c, output))
         ELSE IF m_hasGs
           THEN storeValueToEsGsRing(st, builtInId, c, output, BuiltInValue(c, builtInId),
                                     BuiltInOutLoc(builtInId), 0)
         ELSE [st EXCEPT !.cull = output]
    [] builtInId = "Layer" ->
         IF ~st.usage.layer THEN st
         ELSE IF ~m_hasTs /\ ~m_hasGs /\ ~cfg.multiView
           THEN (IF cfg.gfx <= 8
                   THEN addExportInstForBuiltInOutput(st, output, builtInId, at, c)
                   ELSE [st EXCEPT !.layer = output])
         ELSE st
    [] builtInId = "ViewportIndex" ->
         IF ~st.usage.viewportIndex THEN st
         ELSE IF ~m_hasTs /\ ~m_hasGs
           THEN (IF cfg.gfx <= 8
                   THEN addExportInstForBuiltInOutput(st, output, builtInId, at, c)
                   ELSE [st EXCEPT !.vp = output])
         ELSE st
    [] OTHER -> Unreachable(st)

patchTesBuiltInOutputExport(st, output, builtInId, c) ==
  LET at == <<"call", c>> IN
  CASE builtInId = "Position" ->
         IF ~st.usage.position THEN st
         ELSE IF m_hasGs
           THEN storeValueToEsGsRing(st, builtInId, c, output, BuiltInValue(c, builtInId),
                                     BuiltInOutLoc(builtInId), 0)
         ELSE addExportInstForBuiltInOutput(st, output, builtInId, at, c)
    [] builtInId = "PointSize" ->
         IF ~st.usage.pointSize THEN st
         ELSE IF IsUndef(output) THEN [st EXCEPT !.usage.pointSize = FALSE]
         ELSE IF m_hasGs
           THEN storeValueToEsGsRing(st, builtInId, c, output, BuiltInValue(c, builtInId),
                                     BuiltInOutLoc(builtInId), 0)
         ELSE addExportInstForBuiltInOutput(st, output, builtInId, at, c)
    [] builtInId = "ClipDistance" ->
         IF st.usage.clipDistance = 0 THEN st
         ELSE IF IsUndef(output) THEN [st EXCEPT !.usage.clipDistance = 0]
         ELSE IF m_hasGs
           THEN storeValueToEsGsRing(st, builtInId, c, output, BuiltInValue(c, builtInId),
                                     BuiltInOutLoc(builtInId), 0)
         ELSE [st EXCEPT !.clip = output]
    [] builtInId = "CullDistance" ->
         IF st.usage.cullDistance = 0 THEN st
         ELSE IF IsUndef(output) THEN [st EXCEPT !.usage.cullDistance = 0]
         ELSE IF m_hasGs
           THEN storeValueToEsGsRing(st, builtInId, c, output, BuiltInValue(c, builtInId),
                                     BuiltInOutLoc(builtInId), 0)
         ELSE [st EXCEPT !.cull = output]
    [] builtInId = "Layer" ->
         IF ~st.usage.layer THEN st
         ELSE IF ~m_hasGs /\ ~cfg.multiView
           THEN (IF cfg.gfx <= 8
                   THEN addExportInstForBuiltInOutput(st, output, builtInId, at, c)
                   ELSE [st EXCEPT !.layer = output])
         ELSE st
    [] builtInId = "ViewportIndex" ->
         IF ~st.usage.viewportIndex THEN st
         ELSE IF ~m_hasGs
           THEN (IF cfg.gfx <= 8
                   THEN addExportInstForBuiltInOutput(st, output, builtInId, at, c)
                   ELSE [st EXCEPT !.vp = output])
         ELSE st
    [] OTHER -> Unreachable(st)

patchCopyShaderBuiltInOutputExport(st, output, builtInId, c) ==
  LET at == <<"call", c>> IN
  CASE builtInId \in {"Position", "PointSize"} ->
         addExportInstForBuiltInOutput(st, output, builtInId, at, c)
    [] builtInId = "ClipDistance" -> [st EXCEPT !.clip = output]
    [] builtInId = "CullDistance" -> [st EXCEPT !.cull = output]
    [] builtInId = "PrimitiveId" -> [st EXCEPT !.prim = output]
    [] builtInId = "Layer" ->
         IF cfg.gfx <= 8 /\ ~cfg.multiView
           THEN addExportInstForBuiltInOutput(st, output, builtInId, at, c)
           ELSE [st EXCEPT !.layer = output]
    [] builtInId = "ViewportIndex" ->
         IF cfg.gfx <= 8
           THEN addExportInstForBuiltInOutput(st, output, builtInId, at, c)
           ELSE [st EXCEPT !.vp = output]
    [] OTHER -> Unreachable(st)

\* the calls of function f that visitCallInsts(inputCallees) visits, in use-list order
IsInputCallee(c) == calls[c].kind \in {"inGeneric", "inBuiltIn", "inInterp"}

\* ... and those visitCallInsts(otherCallees) visits
IsOtherCallee(c) ==
  calls[c].kind \in {"outImpGeneric", "outImpBuiltIn", "expGeneric", "expBuiltIn",
                     "expXfb", "sendmsg"}

Visited == {log[i][2] : i \in {j \in 1..Len(log) : log[j][1] = "call"}}

UsersIn(f, Callee(_)) ==
  LET ids == SelectIdx(calls, LAMBDA c : c.fn = f)
      mine == SelectIdx(ids, LAMBDA c : Callee(c))
      ordered == [i \in 1..Len(mine) |-> ids[mine[i]]]
  IN IF cfg.revUse THEN Reverse(ordered) ELSE ordered

\* processFunction visiting otherCallees before inputCallees
PendingOthersFirst(f) ==
  LET all == UsersIn(f, IsOtherCallee) \o UsersIn(f, IsInputCallee)
      left == SelectIdx(all, LAMBDA c : c \notin Visited)
  IN [i \in 1..Len(left) |-> all[left[i]]]

\* the calls processFunction has still to visit, in the order it visits them
Pending(f) ==
  LET all == UsersIn(f, IsInputCallee) \o UsersIn(f, IsOtherCallee)
      left == SelectIdx(all, LAMBDA c : c \notin Visited)
  IN [i \in 1..Len(left) |-> all[left[i]]]

patchTcsBuiltInOutputExport(st, output, builtInId, c) ==
  LET at == <<"call", c>>
      elemIdx == OperandOrNull(c, "elem")
      vertexIdx == OperandOrNull(c, "vertex")
  IN
  CASE builtInId = "Position" ->
         IF ~st.usage.position THEN st
         ELSE writeValueToLds(st, builtInId, c, output, BuiltInBitWidth,
                              IF IsNull(elemIdx) THEN 4 ELSE 1,
                              calcLdsOffsetForTcsOutput(BuiltInBitWidth,
                                                        BuiltInOutLoc(builtInId), Null,
                                                        elemIdx, vertexIdx))
    [] builtInId = "PointSize" ->
         IF ~st.usage.pointSize THEN st
         ELSE writeValueToLds(st, builtInId, c, output, BuiltInBitWidth, 1,
                              calcLdsOffsetForTcsOutput(BuiltInBitWidth,
                                                        BuiltInOutLoc(builtInId), Null,
                                                        Null, vertexIdx))
    [] builtInId \in {"ClipDistance", "CullDistance"} ->
         IF \/ builtInId = "ClipDistance" /\ st.usage.clipDistance = 0
            \/ builtInId = "CullDistance" /\ st.usage.cullDistance = 0
           THEN st
         ELSE IF IsNull(elemIdx)
           THEN EmitAll(st, at, TcsElementWrites("ldsWrite", builtInId, c, output, vertexIdx))
         ELSE writeValueToLds(st, builtInId, c, output, BuiltInBitWidth, 1,
                              calcLdsOffsetForTcsOutput(BuiltInBitWidth,
                                                        BuiltInOutLoc(builtInId), Null,
                                                        elemIdx, vertexIdx))
    [] builtInId = "TessLevelOuter" -> [st EXCEPT !.outer = Append(@, c)]
    [] builtInId = "TessLevelInner" -> [st EXCEPT !.inner = Append(@, c)]
    [] OTHER -> Unreachable(st)

patchGsBuiltInOutputExport(st, output, builtInId, c) ==
  IF builtInId \in {"Position", "PointSize", "ClipDistance", "CullDistance", "PrimitiveId",
                    "Layer", "ViewportIndex"}
    THEN storeValueToGsVsRing(st, builtInId, c, output,
                              IF builtInId \in {"ClipDistance", "CullDistance"}
                                THEN calls[c].cnt ELSE BuiltInCompCount(builtInId),
                              BuiltInOutLoc(builtInId), 0, calls[c].stream)
    ELSE Unreachable(st)

\* m_fragDepth, m_sampleMask and m_fragStencilRef are consumed by a later pass
patchFsBuiltInOutputExport(st, output, builtInId, c) ==
  IF builtInId \in {"FragDepth", "SampleMask", "FragStencilRef"} THEN st ELSE Unreachable(st)

-----------------------------------------------------------------------------
(* visitCallInst: generic and transform-feedback output exports *)

patchVsGenericOutputExport(st, output, c) ==
  IF m_hasTs
    THEN writeValueToLds(st, "generic", c, output, calls[c].bits, calls[c].cnt,
                         calcLdsOffsetForVsOutput(calls[c].bits, calls[c].loc, calls[c].comp))
  ELSE IF m_hasGs THEN storeGenericToEsGsRing(st, c, output)
  ELSE addExportInstForGenericOutput(st, output, calls[c].loc, calls[c].comp, calls[c].cnt,
                                     calls[c].bits)

patchTcsGenericOutputExport(st, output, c) ==
  writeValueToLds(st, "generic", c, output, calls[c].bits, calls[c].cnt,
                  calcLdsOffsetForTcsOutput(calls[c].bits, calls[c].loc, RebasedLocOffset(c),
                                            GenericElemIdx(c), OperandOrNull(c, "vertex")))

patchTesGenericOutputExport(st, output, c) ==
  IF m_hasGs THEN storeGenericToEsGsRing(st, c, output)
  ELSE addExportInstForGenericOutput(st, output, calls[c].loc, calls[c].comp, calls[c].cnt,
                                     calls[c].bits)

\* a 64-bit output is stored as twice as many floats from twice the component
patchGsGenericOutputExport(st, output, c) ==
  storeValueToGsVsRing(st, "generic", c, output, NumChannels(calls[c].bits, calls[c].cnt),
                       calls[c].loc,
                       IF calls[c].bits = 64 THEN calls[c].comp * 2 ELSE calls[c].comp,
                       calls[c].stream)

patchCopyShaderGenericOutputExport(st, output, c) ==
  addExportInstForGenericOutput(st, output, calls[c].loc, 0, calls[c].cnt, calls[c].bits)

patchXfbOutputExport(st, output, c) ==
  Emit(st, <<"call", c>>, Inst("streamOutBufferStore", "xfb", c, <<output>>))

\* a generic-output branch that takes every location as found
GenericOutputExportAlways(st, output, c) ==
  CASE m_shaderStage = "vs" -> patchVsGenericOutputExport(st, output, c)
    [] m_shaderStage = "tcs" -> patchTcsGenericOutputExport(st, output, c)
    [] m_shaderStage = "tes" -> patchTesGenericOutputExport(st, output, c)
    [] m_shaderStage = "gs" -> patchGsGenericOutputExport(st, output, c)
    [] m_shaderStage = "copy" -> patchCopyShaderGenericOutputExport(st, output, c)
    [] OTHER -> Unreachable(st)

\* the generic-output branch of visitCallInst: 'exist' and the stage dispatch
GenericOutputExport(st, output, c) ==
  LET exist == IF m_shaderStage = "copy" THEN TRUE ELSE calls[c].mapped
  IN IF ~exist THEN st
     ELSE CASE m_shaderStage = "vs" -> patchVsGenericOutputExport(st, output, c)
            [] m_shaderStage = "tcs" -> patchTcsGenericOutputExport(st, output, c)
            [] m_shaderStage = "tes" -> patchTesGenericOutputExport(st, output, c)
            [] m_shaderStage = "gs" -> patchGsGenericOutputExport(st, output, c)
            [] m_shaderStage = "copy" -> patchCopyShaderGenericOutputExport(st, output, c)
            [] OTHER -> Unreachable(st)

BuiltInOutputExport(st, output, c) ==
  CASE m_shaderStage = "vs" -> patchVsBuiltInOutputExport(st, output, calls[c].bi, c)
    [] m_shaderStage = "tcs" -> patchTcsBuiltInOutputExport(st, output, calls[c].bi, c)
    [] m_shaderStage = "tes" -> patchTesBuiltInOutputExport(st, output, calls[c].bi, c)
    [] m_shaderStage = "gs" -> patchGsBuiltInOutputExport(st, output, calls[c].bi, c)
    [] m_shaderStage = "fs" -> patchFsBuiltInOutputExport(st, output, calls[c].bi, c)
    [] m_shaderStage = "copy" -> patchCopyShaderBuiltInOutputExport(st, output, calls[c].bi, c)
    [] OTHER -> Unreachable(st)

XfbOutputExport(st, output, c) ==
  CASE m_shaderStage = "vs" ->
         IF ~m_hasGs /\ ~m_hasTs THEN patchXfbOutputExport(st, output, c) ELSE st
    [] m_shaderStage = "tes" ->
         IF ~m_hasGs THEN patchXfbOutputExport(st, output, c) ELSE st
    [] m_shaderStage = "gs" -> st
    [] m_shaderStage = "copy" -> patchXfbOutputExport(st, output, c)
    [] OTHER -> Unreachable(st)

-----------------------------------------------------------------------------
(* visitCallInst: imports and messages *)

TessLevels == {"TessLevelOuter", "TessLevelInner"}
BucketOf(builtInId) == IF builtInId = "TessLevelOuter" THEN "outer" ELSE "inner"

\* the dwords of a tessellation level that is read as an array (one read per
\* element, at the element index i) or as one element
TessLevelReadAddr(offChip, c, LdsOffset(_)) ==
  LET elemIdx == OperandOrNull(c, "elem")
  IN IF IsNull(elemIdx)
       THEN [mem |-> LdsAddr(offChip, Null, 1).mem,
             at |-> [i \in 1..calls[c].cnt |->
                       LdsAddr(offChip, LdsOffset(ConstInt(i - 1)), 1).at[1]],
             first |-> 0]
       ELSE LdsAddr(offChip, LdsOffset(elemIdx), 1)

\* The location a generic import is lowered with.  A location that is found in
\* the location map gives its mapped location.  A location that is not found
\* fails an assert; without assertions the evaluation shader and an output
\* import go on with what perPatchInputLocMap[value] / perPatchOutputLocMap[value]
\* inserts (0), and the other stages with what is read through the end
\* iterator ('loc' of such a call is any location).
PerPatchFallback(c) ==
  \/ calls[c].kind \in {"inGeneric", "inInterp"} /\ m_shaderStage = "tes"
  \/ calls[c].kind = "outImpGeneric"

GenericLoc(c) ==
  IF ~calls[c].mapped /\ PerPatchFallback(c) THEN 0 ELSE calls[c].loc

\* the storage that the lowered import of call c reads when its location is
\* loc: generic inputs and outputs of the tessellation shaders and the
\* tessellation levels
ImportAddrAt(c, loc) ==
  LET bits == calls[c].bits
      numChannels == NumChannels(bits, calls[c].cnt)
  IN CASE calls[c].kind = "inGeneric" /\ m_shaderStage = "tcs" ->
            LdsAddr(FALSE,
                    calcLdsOffsetForTcsInput(bits, loc, RebasedLocOffset(c), GenericElemIdx(c),
                                             OperandValue(c, "vertex")),
                    numChannels)
       [] calls[c].kind = "inGeneric" /\ m_shaderStage = "tes" ->
            LdsAddr(cfg.tess.offChip,
                    calcLdsOffsetForTesInput(bits, loc, RebasedLocOffset(c), GenericElemIdx(c),
                                             OperandOrNull(c, "vertex")),
                    numChannels)
       [] calls[c].kind = "outImpGeneric" /\ m_shaderStage = "tcs" ->
            LdsAddr(cfg.tess.offChip,
                    calcLdsOffsetForTcsOutput(bits, loc, RebasedLocOffset(c), GenericElemIdx(c),
                                              OperandOrNull(c, "vertex")),
                    numChannels)
       [] calls[c].kind = "outImpBuiltIn" /\ m_shaderStage = "tcs"
          /\ calls[c].bi \in TessLevels ->
            TessLevelReadAddr(cfg.tess.offChip, c,
                              LAMBDA elemIdx :
                                calcLdsOffsetForTcsOutput(BuiltInBitWidth,
                                  cfg.perPatchBuiltInOutLoc[BucketOf(calls[c].bi)], Null,
                                  elemIdx, OperandOrNull(c, "vertex")))
       [] calls[c].kind = "inBuiltIn" /\ m_shaderStage = "tes"
          /\ calls[c].bi \in TessLevels ->
            TessLevelReadAddr(cfg.tess.offChip, c,
                              LAMBDA elemIdx :
                                calcLdsOffsetForTesInput(BuiltInBitWidth,
                                  cfg.perPatchBuiltInInLoc[BucketOf(calls[c].bi)], Null,
                                  elemIdx, OperandOrNull(c, "vertex")))
       [] OTHER -> NoAddr

ImportAddr(c) == ImportAddrAt(c, GenericLoc(c))

BaryCoords == {"BaryCoord", "BaryCoordNoPerspKHR"}

\* the primitive types that the import of gl_BaryCoord has a case for
BaryCoordPrimitiveTypes ==
  {"Point", "Line_List", "Line_Strip", "Triangle_List", "Triangle_Strip", "Triangle_Fan",
   "Triangle_Strip_Adjacency", "Triangle_List_Adjacency"}

\* patchFsBuiltInInputImport with the weights of a triangle list in the order
\* i, j, k
patchFsBuiltInInputImportIJK(builtInId) ==
  LET idx == IF builtInId = "BaryCoord" THEN "perspInterpCenter" ELSE "linearInterpCenter"
      iJCoord == FunctionArgument(m_entryPoint, idx)
      iCoord == Extract(iJCoord, 0)
      jCoord == Extract(iJCoord, 1)
      kCoord == FSub(FSub(ConstFP(1), iCoord), jCoord)
  IN IF builtInId \in BaryCoords /\ cfg.primType = "Triangle_List"
       THEN <<iCoord, jCoord, kCoord>>
       ELSE NoSrc

\* patchFsBuiltInInputImport, cases BuiltInBaryCoord and
\* BuiltInBaryCoordNoPerspKHR: the three components of the input (the other
\* built-in inputs are not computed here)
patchFsBuiltInInputImport(builtInId) ==
  LET idx == IF builtInId = "BaryCoord" THEN "perspInterpCenter" ELSE "linearInterpCenter"
      iJCoord == FunctionArgument(m_entryPoint, idx)
      iCoord == Extract(iJCoord, 0)
      jCoord == Extract(iJCoord, 1)
      kCoord == FSub(FSub(ConstFP(1), iCoord), jCoord)
      con == IsEven(FunctionArgument(m_entryPoint, "primitiveId"))
      Choose(even, odd) == [n \in 1..3 |-> Select(con, even[n], odd[n])]
  IN IF builtInId \notin BaryCoords THEN NoSrc
     ELSE CASE cfg.primType = "Point" -> <<ConstFP(1), ConstFP(0), ConstFP(0)>>
            [] cfg.primType \in {"Line_List", "Line_Strip"} ->
                 <<kCoord, FAdd(iCoord, jCoord), ConstFP(0)>>
            [] cfg.primType = "Triangle_List" -> <<jCoord, kCoord, iCoord>>
            [] cfg.primType \in {"Triangle_Strip", "Triangle_Fan",
                                 "Triangle_Strip_Adjacency"} ->
                 Choose(<<kCoord, iCoord, jCoord>>, <<jCoord, kCoord, iCoord>>)
            [] cfg.primType = "Triangle_List_Adjacency" ->
                 Choose(<<kCoord, iCoord, jCoord>>, <<iCoord, jCoord, kCoord>>)
            [] OTHER -> NoSrc

\* the value that the instructions generated for the import c compute
ImportedValue(c) ==
  IF calls[c].kind = "inBuiltIn" /\ m_shaderStage = "fs"
    THEN patchFsBuiltInInputImport(calls[c].bi) ELSE NoSrc

\* the instructions that compute an imported value replace the import call
LowerImport(st, c) ==
  Emit(st, <<"call", c>>,
       At(Inst("import", calls[c].kind, c, ImportedValue(c)), ImportAddr(c)))

InputImport(st, c) ==
  IF calls[c].kind = "inBuiltIn"
    THEN (IF m_shaderStage \in {"vs", "tcs", "tes", "gs", "fs"}
            THEN LowerImport(IF /\ m_shaderStage = "fs"
                                /\ calls[c].bi \in BaryCoords
                                /\ cfg.primType \notin BaryCoordPrimitiveTypes
                               THEN Unreachable(st) ELSE st, c)
            ELSE Unreachable(st))
    ELSE LET looked == [st EXCEPT !.asserted =
                                    @ \/ (m_shaderStage # "vs" /\ ~calls[c].mapped)]
         IN IF m_shaderStage \in {"tcs", "tes", "gs", "fs"}
              THEN LowerImport(looked, c) ELSE Unreachable(looked)

OutputImport(st, c) ==
  LowerImport([st EXCEPT !.asserted = @ \/ m_shaderStage # "tcs"
                                        \/ (calls[c].kind = "outImpGeneric"
                                            /\ ~calls[c].mapped)], c)

\* s_sendmsg: the view index goes to the GS-VS ring before an emit, and the
\* emit counter of the stream is incremented
SendMsg(st, c) ==
  LET withView ==
        IF cfg.multiView
          THEN storeValueToGsVsRing([st EXCEPT !.asserted = @ \/ m_shaderStage # "gs"],
                                    "ViewIndex", c, FunctionArgument(m_entryPoint, "viewIndex"),
                                    1, BuiltInOutLoc("ViewIndex"), 0, cfg.rasterStream)
          ELSE st
  IN IF calls[c].bi = "emit"
       THEN Emit(withView, <<"call", c>>, Inst("emitCounterAdd", "emit", c, NoSrc))
       ELSE withView

\* visitCallInst that lowers an output import without recording it in m_importCalls
visitCallInstKeepsOutputImport(st, c) ==
  LET output == IF calls[c].undef THEN Undef ELSE OutputOf(c) IN
  CASE calls[c].kind \in {"inGeneric", "inBuiltIn", "inInterp"} ->
         InputImport([st EXCEPT !.imports = Append(@, c)], c)
    [] calls[c].kind \in {"outImpGeneric", "outImpBuiltIn"} -> OutputImport(st, c)
    [] calls[c].kind = "expXfb" ->
         XfbOutputExport([st EXCEPT !.exports = Append(@, c)], output, c)
    [] calls[c].kind = "expBuiltIn" ->
         BuiltInOutputExport([st EXCEPT !.exports = Append(@, c)], output, c)
    [] calls[c].kind = "expGeneric" ->
         GenericOutputExport([st EXCEPT !.exports = Append(@, c)], output, c)
    [] calls[c].kind = "sendmsg" -> SendMsg(st, c)

visitCallInst(st, c) ==
  LET output == IF calls[c].undef THEN Undef ELSE OutputOf(c) IN
  CASE calls[c].kind \in {"inGeneric", "inBuiltIn", "inInterp"} ->
         InputImport([st EXCEPT !.imports = Append(@, c)], c)
    [] calls[c].kind \in {"outImpGeneric", "outImpBuiltIn"} ->
         OutputImport([st EXCEPT !.imports = Append(@, c)], c)
    [] calls[c].kind = "expXfb" ->
         XfbOutputExport([st EXCEPT !.exports = Append(@, c)], output, c)
    [] calls[c].kind = "expBuiltIn" ->
         BuiltInOutputExport([st EXCEPT !.exports = Append(@, c)], output, c)
    [] calls[c].kind = "expGeneric" ->
         GenericOutputExport([st EXCEPT !.exports = Append(@, c)], output, c)
    [] calls[c].kind = "sendmsg" -> SendMsg(st, c)

-----------------------------------------------------------------------------
(* visitReturnInst *)

Zero == ConstFP(0)
One == ConstFP(1)
Shl(v, n) == <<"shl", v, n>>
Or(a, b) == <<"or", a, b>>

\* pad a list of distances with undef to [4 x float] or [8 x float]
PadDistances(s) ==
  LET n == IF Len(s) <= 4 THEN 4 ELSE 8
  IN [i \in 1..n |-> IF i <= Len(s) THEN s[i] ELSE Undef]

\* where the return-time instructions go: before the "ret", or, in a copy shader
\* with transform feedback and no NGG, before the terminator of the switch case
\* of the raster stream
ReturnInsertPos(b, retBlk) ==
  LET switches == {i \in 1..Len(b) : b[i].k = "switch"}
  IN IF /\ m_shaderStage = "copy" /\ cfg.enableXfb /\ ~cfg.ngg
        /\ \E i \in switches : cfg.rasterStream \in SeqToSet(b[i].src)
       THEN <<"term", IF cfg.rasterStream = 0 THEN "case0" ELSE "case1">>
       ELSE <<"term", retBlk>>

\* step 1 with the test of usePosition inverted
ExportDummyPositionIfUsed(st, at) ==
  IF st.usage.position
    THEN Emit(st, at, Item("exp", "dummyPosition", 0, PosTarget(0), 15,
                           <<Zero, Zero, Zero, One>>))
    ELSE st

\* step 1: a dummy position export if gl_Position is not used
ExportDummyPosition(st, at) ==
  IF ~st.usage.position
    THEN Emit(st, at, Item("exp", "dummyPosition", 0, PosTarget(0), 15,
                           <<Zero, Zero, Zero, One>>))
    ELSE st

\* step 2: the deferred gl_ClipDistance[] and gl_CullDistance[]
ExportClipCullDistance(st, at) ==
  LET clipDistanceCount == st.usage.clipDistance
      cullDistanceCount == st.usage.cullDistance
      clipDistance == [i \in 1..clipDistanceCount |-> Extract(st.clip, i - 1)]
      cullDistance == [i \in 1..cullDistanceCount |-> Extract(st.cull, i - 1)]
      clipCullDistance == PadDistances(clipDistance \o cullDistance)
      miscExport == st.usage.pointSize \/ (cfg.multiView \/ st.usage.layer)
                      \/ st.usage.viewportIndex \/ st.usage.primitiveShadingRate
      pos == IF miscExport THEN 2 ELSE 1
      first == Item("exp", "ClipCullDistance", 0, PosTarget(pos), 15,
                    SubSeq(clipCullDistance, 1, 4))
      second == Item("exp", "ClipCullDistance", 0, PosTarget(pos + 1), 15,
                     SubSeq(clipCullDistance, 5, 8))
      exported == EmitAll([st EXCEPT !.asserted =
                             @ \/ clipDistanceCount + cullDistanceCount > 8
                               \/ (clipDistanceCount > 0 /\ st.clip = Null)
                               \/ (cullDistanceCount > 0 /\ st.cull = Null)],
                          at,
                          IF Len(clipCullDistance) > 4 THEN <<first, second>> ELSE <<first>>)
      toFs == NextStageAfter(m_shaderStage) = "fs"
      hasClipCullExport == ~toFs \/ cfg.fs.clipDistance > 0 \/ cfg.fs.cullDistance > 0
      clipForFs == Min(cfg.fs.clipDistance, clipDistanceCount)
      cullForFs == Min(cfg.fs.cullDistance, cullDistanceCount)
      forFs == PadDistances(
                 [i \in 1..Max(clipForFs, cfg.fs.clipDistance) |->
                    IF i <= clipForFs THEN clipDistance[i] ELSE Undef]
                 \o SubSeq(cullDistance, 1, cullForFs))
      attribs == IF toFs THEN forFs ELSE clipCullDistance
      loc == IF "ClipDistance" \in DOMAIN cfg.builtInOutLoc
               THEN BuiltInOutLoc("ClipDistance") ELSE BuiltInOutLoc("CullDistance")
      firstRec == recordVertexAttribExport(exported, loc, SubSeq(attribs, 1, 4))
  IN IF clipDistanceCount = 0 /\ cullDistanceCount = 0 THEN st
     ELSE IF ~hasClipCullExport THEN exported
     ELSE IF Len(attribs) > 4
       THEN recordVertexAttribExport(firstRec, loc + 1, SubSeq(attribs, 5, 8))
       ELSE firstRec

\* step 3: gl_PrimitiveID goes to the fragment shader as a generic output
ExportPrimitiveId(st) ==
  LET nextStage == NextStageAfter(m_shaderStage)
      hasPrimitiveIdExport ==
        IF nextStage = "fs" THEN cfg.fs.primitiveId
        ELSE m_shaderStage = "copy" /\ usage["gs"].primitiveId
  IN IF st.usage.primitiveId /\ hasPrimitiveIdExport
       THEN recordVertexAttribExport([st EXCEPT !.asserted = @ \/ st.prim = Null],
                                     BuiltInOutLoc("PrimitiveId"),
                                     <<BitCast(st.prim), Undef, Undef, Undef>>)
       ELSE st

\* step 4, up to GFX8, without the test of multi-view
ExportLayerAlways(st, at) ==
  IF cfg.gfx <= 8 /\ (cfg.multiView \/ st.usage.layer)
    THEN addExportInstForBuiltInOutput([st EXCEPT !.asserted = @ \/ st.layer = Null],
                                       st.layer, "Layer", at, 0)
    ELSE st

\* step 4, up to GFX8: with multi-view gl_Layer is always exported
ExportMultiViewLayer(st, at) ==
  IF cfg.gfx <= 8 /\ cfg.multiView
    THEN addExportInstForBuiltInOutput([st EXCEPT !.asserted = @ \/ st.layer = Null],
                                       st.layer, "Layer", at, 0)
    ELSE st

\* step 4, from GFX9, with gl_Layer in the upper half of the value
ExportLayerAndViewportIndex(st, at) ==
  LET useLayer == cfg.multiView \/ st.usage.layer
      useViewportIndex == st.usage.viewportIndex
      toFs == NextStageAfter(m_shaderStage) = "fs"
      shifted == IF useLayer THEN Shl(st.layer, 16) ELSE Zero
      viewportIndexAndLayer == IF useViewportIndex THEN Or(shifted, st.vp) ELSE shifted
      exported ==
        Emit([st EXCEPT !.asserted = @ \/ (useViewportIndex /\ st.vp = Null)
                                       \/ (useLayer /\ st.layer = Null)],
             at, Item("exp", "ViewportIndexAndLayer", 0, PosTarget(1), 4,
                      <<Undef, Undef, BitCast(viewportIndexAndLayer), Undef>>))
      withViewport ==
        MirrorBuiltIn(exported, "ViewportIndex", BitCast(st.vp),
                      useViewportIndex /\ toFs /\ cfg.fs.viewportIndex)
  IN IF cfg.gfx >= 9 /\ (useLayer \/ useViewportIndex)
       THEN MirrorBuiltIn(withViewport, IF cfg.multiView THEN "ViewIndex" ELSE "Layer",
                          BitCast(st.layer),
                          useLayer /\ toFs /\ (cfg.fs.layer \/ cfg.fs.viewIndex))
       ELSE st

\* step 4, from GFX9: gl_ViewportIndex and gl_Layer in one export
ExportViewportIndexAndLayer(st, at) ==
  LET useLayer == cfg.multiView \/ st.usage.layer
      useViewportIndex == st.usage.viewportIndex
      toFs == NextStageAfter(m_shaderStage) = "fs"
      shifted == IF useViewportIndex THEN Shl(st.vp, 16) ELSE Zero
      viewportIndexAndLayer == IF useLayer THEN Or(shifted, st.layer) ELSE shifted
      exported ==
        Emit([st EXCEPT !.asserted = @ \/ (useViewportIndex /\ st.vp = Null)
                                       \/ (useLayer /\ st.layer = Null)],
             at, Item("exp", "ViewportIndexAndLayer", 0, PosTarget(1), 4,
                      <<Undef, Undef, BitCast(viewportIndexAndLayer), Undef>>))
      withViewport ==
        MirrorBuiltIn(exported, "ViewportIndex", BitCast(st.vp),
                      useViewportIndex /\ toFs /\ cfg.fs.viewportIndex)
  IN IF cfg.gfx >= 9 /\ (useLayer \/ useViewportIndex)
       THEN MirrorBuiltIn(withViewport, IF cfg.multiView THEN "ViewIndex" ELSE "Layer",
                          BitCast(st.layer),
                          useLayer /\ toFs /\ (cfg.fs.layer \/ cfg.fs.viewIndex))
       ELSE st

\* step 5 for the targets up to GFX8 only
ExportDummyGenericUpToGfx8(st) ==
  IF cfg.gfx <= 8 /\ st.expCount = 0
    THEN recordVertexAttribExport(st, 0, Undef4)
    ELSE st

\* step 5, up to GFX9: a dummy generic export if the shader has no generic output
ExportDummyGeneric(st) ==
  IF cfg.gfx <= 9 /\ st.expCount = 0
    THEN recordVertexAttribExport(st, 0, Undef4)
    ELSE st

\* unlinked shaders count the generic outputs that are not written
CountUnwrittenOutputs(st) ==
  LET unwritten == cfg.outputLocs \ st.expLocs
  IN IF cfg.unlinked /\ unwritten # {}
       THEN [st EXCEPT !.expCount =
               Max(@, 1 + CHOOSE l \in unwritten : \A m \in unwritten : m <= l)]
       ELSE st

\* m_layer on entry to the export scheduler: the view index if multi-view is on
WithViewIndex(st) ==
  IF m_shaderStage \in {"vs", "tes"} /\ cfg.multiView
    THEN [st EXCEPT !.layer = FunctionArgument(m_entryPoint, "viewIndex")]
    ELSE st

visitReturnInst(st, retBlk) ==
  LET at == ReturnInsertPos(st.body, retBlk) IN
  IF m_shaderStage = "invalid" THEN st
  ELSE IF UseExpInst(m_shaderStage)
    THEN CountUnwrittenOutputs(
           exportVertexAttribs(
             ExportDummyGeneric(
               ExportViewportIndexAndLayer(
                 ExportMultiViewLayer(
                   ExportPrimitiveId(
                     ExportClipCullDistance(
                       ExportDummyPosition(WithViewIndex(st), at), at)), at), at)), at))
  ELSE IF m_shaderStage = "gs"
    THEN EmitAll(st, at,
                 (IF ~cfg.gsOnChip /\ cfg.gfx >= 10
                    THEN <<Inst("fence", "release", 0, NoSrc)>> ELSE <<>>)
                 \o <<Inst("sendmsg", "GsDone", 0, NoSrc)>>)
  ELSE st

-----------------------------------------------------------------------------
(* markExportDone *)

\* PostDominatorTree::dominates(b[i], b[j]): every path from b[j] to the exit
\* goes through b[i].  Blocks: "entry" branches to "case0"/"case1", which
\* branch to "ret"; a straight-line function has the block "ret" only.
PostDominates(b, i, j) ==
  IF b[i].blk = b[j].blk THEN j <= i ELSE b[i].blk = "ret"

IsPositionExport(item) == item.k = "exp" /\ item.tgt[1] = "pos"

\* the position exports of the function, in the order of the use list of
\* llvm.amdgcn.exp.f32
PositionExports(b) ==
  LET expInsts == SelectIdx(b, IsPositionExport)
  IN IF cfg.revUse THEN expInsts ELSE Reverse(expInsts)

RECURSIVE FindLastExport(_, _, _, _)
FindLastExport(b, expInsts, i, lastExport) ==
  IF i > Len(expInsts) THEN lastExport
  ELSE FindLastExport(b, expInsts, i + 1,
                      IF PostDominates(b, expInsts[i], lastExport)
                        THEN expInsts[i] ELSE lastExport)

\* markExportDone without the loop that looks for the last export
FirstExport(b) ==
  LET expInsts == PositionExports(b)
  IN IF expInsts = <<>> THEN 0 ELSE expInsts[1]

\* the position export that receives the done flag (0: none)
LastExport(b) ==
  LET expInsts == PositionExports(b)
  IN IF expInsts = <<>> THEN 0 ELSE FindLastExport(b, expInsts, 2, expInsts[1])

markExportDone(b) ==
  IF LastExport(b) = 0 THEN b ELSE [b EXCEPT ![LastExport(b)].done = TRUE]

-----------------------------------------------------------------------------
(* The tessellation-factor finalizer *)

\* unsigned comparison of two i32
ULT(a, b) == IF a < 0 THEN (b < 0 /\ a < b) ELSE (b < 0 \/ a < b)
ULE(a, b) == a = b \/ ULT(a, b)

\* expTessFactorCount[primitiveMode][i]: i = 0 outer, i = 1 inner
expTessFactorCount(i) ==
  CASE cfg.primMode = "tri" -> IF i = 0 THEN 3 ELSE 1
    [] cfg.primMode = "quad" -> IF i = 0 THEN 4 ELSE 2
    [] cfg.primMode = "iso" -> IF i = 0 THEN 2 ELSE 0

\* calcFactor.tessFactorStride, set by processShader
tessFactorStride ==
  CASE cfg.primMode = "tri" -> 4
    [] cfg.primMode = "quad" -> 6
    [] cfg.primMode = "iso" -> 2

\* calcTessFactorOffset without the select on elemIdx < tessFactorCount
calcTessFactorOffsetUnchecked(isOuter, elemIdx) ==
  LET tessFactorStart == IF isOuter THEN 0 ELSE expTessFactorCount(0)
      swapped == IF cfg.primMode = "iso" /\ isOuter /\ ULE(elemIdx[2], 1)
                   THEN 1 - elemIdx[2] ELSE elemIdx[2]
  IN IF elemIdx[1] = "none" THEN tessFactorStart ELSE tessFactorStart + swapped

\* elemIdx is <<"none", 0>> (null), <<"const", k>> or <<"dyn", k>>, k being the
\* value the index has at run time
calcTessFactorOffset(isOuter, elemIdx) ==
  LET tessFactorCount == expTessFactorCount(IF isOuter THEN 0 ELSE 1)
      tessFactorStart == IF isOuter THEN 0 ELSE expTessFactorCount(0)
      swapped == IF cfg.primMode = "iso" /\ isOuter /\ ULE(elemIdx[2], 1)
                   THEN 1 - elemIdx[2] ELSE elemIdx[2]
  IN IF elemIdx[1] = "none" THEN tessFactorStart
     ELSE IF ULT(swapped, tessFactorCount)
       THEN tessFactorStart + swapped
       ELSE InvalidValue

\* one call of lgc.tfbuffer.store: tfOffset and tfValue, inserted before call c
storeTessFactorToBuffer(bucket, tessFactors, tessFactorOffset, c) ==
  Item("tfStore", bucket, c, <<"tf", tessFactorOffset>>, 0, tessFactors)

\* The collecting loop of storeTessFactors for bucket i.  Its
\* std::swap(tessFactors[0], tessFactors[1]) indexes the pointer to the vector of
\* the outer factors: element 1 is the object behind that vector.  'ub' is what
\* that access does: "alias" - the object is the vector of the inner factors, and
\* the two vectors exchange their contents; "crash" - it is not, and the program
\* dies.
RECURSIVE CollectTessFactors(_, _, _, _, _)
CollectTessFactors(tessLevelInsts, k, i, ub, acc) ==
  IF k > Len(tessLevelInsts) THEN acc
  ELSE
    LET c == tessLevelInsts[k]
        output == OutputOf(c)
        pushed == IF calls[c].arr
                    THEN [e \in 1..expTessFactorCount(i) |-> Extract(output, e - 1)]
                    ELSE <<output>>
        filled == IF i = 0 THEN [acc EXCEPT !.outer = @ \o pushed]
                  ELSE [acc EXCEPT !.inner = @ \o pushed]
        swapped == IF calls[c].arr /\ cfg.primMode = "iso" /\ i = 0
                     THEN (IF ub = "alias"
                             THEN [filled EXCEPT !.outer = filled.inner,
                                                 !.inner = filled.outer]
                             ELSE [filled EXCEPT !.crashed = TRUE])
                     ELSE filled
    IN CollectTessFactors(tessLevelInsts, k + 1, i, ub, swapped)

\* isOutputArray[i]: the type of the last call-site of the bucket
IsOutputArray(tessLevelInsts) ==
  tessLevelInsts # <<>> /\ calls[tessLevelInsts[Len(tessLevelInsts)]].arr

\* The stores of one bucket: <<call to insert before, instruction>> pairs;
\* 'crash' if tessLevelInsts is indexed out of its bounds.
Stores(seq) == [crash |-> FALSE, seq |-> seq]
OutOfBounds == [crash |-> TRUE, seq |-> <<>>]

\* The array is written with the vertex index operand of the call as it is;
\* an element is written with no vertex index.
BucketLdsWrites(bucket, tessLevelInsts, tessFactors, isOutputArray) ==
  LET loc == cfg.perPatchBuiltInOutLoc[bucket] IN
  IF isOutputArray
    THEN LET vertexIdx == OperandValue(tessLevelInsts[1], "vertex") IN
         Stores([idx \in 1..calls[tessLevelInsts[1]].cnt |->
                   LET elem == RuntimeValue(tessLevelInsts[1], idx - 1, BuiltInBitWidth, 1)
                       ldsOffset == calcLdsOffsetForTcsOutput(BuiltInBitWidth, loc, Null,
                                                              ConstInt(idx - 1), vertexIdx)
                   IN <<tessLevelInsts[1],
                        Storing(At(Inst("ldsWrite", bucket, tessLevelInsts[1],
                                        <<Extract(OutputOf(tessLevelInsts[1]), idx - 1)>>),
                                   [LdsAddr(cfg.tess.offChip, ldsOffset, 1)
                                      EXCEPT !.first = idx - 1]),
                                ldsOffset, elem, StoreValues(elem))>>])
  ELSE IF Len(tessFactors) > Len(tessLevelInsts) THEN OutOfBounds
  ELSE Stores([idx \in 1..Len(tessFactors) |->
                 LET tessFactor == RuntimeValue(tessLevelInsts[idx], 0, BuiltInBitWidth, 1)
                     ldsOffset ==
                       calcLdsOffsetForTcsOutput(BuiltInBitWidth, loc, Null,
                                                 OperandValue(tessLevelInsts[idx], "elem"), Null)
                 IN <<tessLevelInsts[idx],
                      Storing(At(Inst("ldsWrite", bucket, tessLevelInsts[idx],
                                      <<tessFactors[idx]>>),
                                 LdsAddr(cfg.tess.offChip, ldsOffset, 1)),
                              ldsOffset, tessFactor, StoreValues(tessFactor))>>])

BucketBufferStores(bucket, tessLevelInsts, tessFactors) ==
  IF tessFactors = <<>> THEN Stores(<<>>)
  ELSE IF tessLevelInsts = <<>> THEN OutOfBounds
  ELSE IF calls[tessLevelInsts[1]].arr
    THEN Stores(<< <<tessLevelInsts[1],
                     storeTessFactorToBuffer(bucket, tessFactors,
                                             calcTessFactorOffset(bucket = "outer", <<"none", 0>>),
                                             tessLevelInsts[1])>> >>)
  ELSE IF Len(tessFactors) > Len(tessLevelInsts) THEN OutOfBounds
  ELSE Stores([idx \in 1..Len(tessFactors) |->
                 <<tessLevelInsts[idx],
                   storeTessFactorToBuffer(bucket, <<tessFactors[idx]>>,
                                           calcTessFactorOffset(bucket = "outer",
                                                                calls[tessLevelInsts[idx]].elem),
                                           tessLevelInsts[idx])>>])

\* doTessFactorBufferStore that stores the outer bucket a second time in place of
\* the inner one
doTessFactorBufferStoreOuterTwice(outerTessFactors, innerTessFactors) ==
  LET outerStores == BucketBufferStores("outer", m_tessLevelOuterInsts, outerTessFactors)
  IN [crash |-> outerStores.crash, seq |-> outerStores.seq \o outerStores.seq]

\* doTessFactorBufferStore: the stores of the outer bucket, then of the inner one
doTessFactorBufferStore(outerTessFactors, innerTessFactors) ==
  LET outerStores == BucketBufferStores("outer", m_tessLevelOuterInsts, outerTessFactors)
      innerStores == BucketBufferStores("inner", m_tessLevelInnerInsts, innerTessFactors)
  IN [crash |-> outerStores.crash \/ innerStores.crash,
      seq |-> outerStores.seq \o innerStores.seq]

\* insert each instruction of 'stores' before the call it names
RECURSIVE InsertStores(_, _, _)
InsertStores(bodies, stores, k) ==
  IF k > Len(stores) THEN bodies
  ELSE LET c == stores[k][1]
           f == calls[c].fn
       IN InsertStores(
            [bodies EXCEPT ![f] = InsertBefore(@, PosOfCall(@, c), <<stores[k][2]>>)],
            stores, k + 1)

\* the component counts that m_buffFormats has a format for
BufferFormats == 1..4

\* storeTessFactors: whether the program dies, and the new function bodies.
\* createTessBufferStoreFunction indexes m_buffFormats, a std::array of four
\* formats, with compCount - 1: for more than four components the access is out
\* of bounds, and 'ub' is what it does, too: "crash" - the program dies,
\* "alias" - it reads some format and the pass goes on.
storeTessFactors(ub) ==
  LET none == [outer |-> <<>>, inner |-> <<>>, crashed |-> FALSE]
      afterOuter == CollectTessFactors(m_tessLevelOuterInsts, 1, 0, ub, none)
      collected == CollectTessFactors(m_tessLevelInnerInsts, 1, 1, ub, afterOuter)
      outerLds == IF cfg.tfLds[1]
                    THEN BucketLdsWrites("outer", m_tessLevelOuterInsts, collected.outer,
                                         IsOutputArray(m_tessLevelOuterInsts))
                    ELSE Stores(<<>>)
      innerLds == IF cfg.tfLds[2]
                    THEN BucketLdsWrites("inner", m_tessLevelInnerInsts, collected.inner,
                                         IsOutputArray(m_tessLevelInnerInsts))
                    ELSE Stores(<<>>)
      stores == doTessFactorBufferStore(collected.outer, collected.inner)
      formats == IF stores.crash THEN {}
                 ELSE {Len(stores.seq[k][2].src) : k \in 1..Len(stores.seq)}
  IN IF m_tessLevelOuterInsts = <<>> /\ m_tessLevelInnerInsts = <<>>
       THEN [crash |-> FALSE, body |-> body]
     ELSE IF collected.crashed \/ outerLds.crash \/ innerLds.crash \/ stores.crash
       THEN [crash |-> TRUE, body |-> body]
     ELSE IF ub = "crash" /\ ~(formats \subseteq BufferFormats)
       THEN [crash |-> TRUE, body |-> body]
     ELSE [crash |-> FALSE,
           body |-> InsertStores(body, outerLds.seq \o innerLds.seq \o stores.seq, 1)]

-----------------------------------------------------------------------------
(* runImpl and processFunction *)

NoAttribs == [location \in {} |-> Undef4]

\* the non-entry-point loop without the test for the entry point
IsNonEntryShaderOrEntry(f) ==
  /\ ~funcs[f].decl
  /\ funcs[f].stage # "invalid"

\* the non-entry-point loop skips declarations, functions without a shader
\* stage, and the entry points
IsNonEntryShader(f) ==
  /\ ~funcs[f].decl
  /\ funcs[f].stage # "invalid"
  /\ f # EntryPointOf(funcs[f].stage)

\* the shader stages from index i on (in the order of the entry-point loop) that
\* have an entry point
EntryStagesFrom(i) == {j \in i..Len(StageOrder) : EntryPointOf(StageOrder[j]) # 0}

NonEntryFrom(i) == {f \in i..Len(funcs) : IsNonEntryShader(f)}

Least(S) == CHOOSE x \in S : \A y \in S : x <= y

\* where runImpl continues after a function (and, for the control shader's entry
\* point, after storeTessFactors)
AfterFunction ==
  IF fnIdx = 0 /\ EntryStagesFrom(stageIdx + 1) # {} THEN "entry" ELSE "nonentry"

MaxTessPatchVertices == 32

\* the calculation factors that no function has initialized: every member is
\* InvalidValue
NoCalcFactor ==
  [inVertexStride |-> InvalidValue, outVertexStride |-> InvalidValue,
   patchCountPerThreadGroup |-> InvalidValue, outPatchSize |-> InvalidValue,
   inPatchSize |-> InvalidValue, patchConstSize |-> InvalidValue,
   onChip |-> [outPatchStart |-> InvalidValue, patchConstStart |-> InvalidValue],
   offChip |-> [outPatchStart |-> InvalidValue, patchConstStart |-> InvalidValue],
   tessFactorStride |-> InvalidValue]

\* calcPatchCountPerThreadGroup; the wave size is that of m_shaderStage
calcPatchCountPerThreadGroup(stage, inVertexCount, inVertexStride, outVertexCount, outVertexStride, patchConstCount, tfStride) ==
  LET waveSize == cfg.waveSize[stage]
      maxThreadCountPerThreadGroup == 4 * waveSize
      maxThreadCountPerPatch == Max(inVertexCount, outVertexCount)
      patchCountLimitedByThread == maxThreadCountPerThreadGroup \div maxThreadCountPerPatch
      inPatchSize == inVertexCount * inVertexStride
      outPatchSize == outVertexCount * outVertexStride
      patchConstSize == patchConstCount * 4
      ldsSizePerPatch == inPatchSize
      patchCountLimitedByLds == cfg.gpu.ldsSizePerThreadGroup \div ldsSizePerPatch
      optimalPatchCountPerThreadGroup == IF cfg.gfx >= 9 THEN 64 ELSE 16
      byOptimum == Min(Min(patchCountLimitedByThread, patchCountLimitedByLds),
                       optimalPatchCountPerThreadGroup)
      outPatchLdsBufferSize == (outPatchSize + patchConstSize) * 4
      byOffChip == IF cfg.tess.offChip
                     THEN Min(byOptimum, cfg.gpu.tessOffChipLdsBufferSize \div outPatchLdsBufferSize)
                     ELSE byOptimum
      tfBufferSizeInBytes == 4 * cfg.gpu.tessFactorBufferSizePerSe
      tfBufferPatchCountLimit ==
        IF cfg.gpu.waTessFactorBufferSizeLimitGeUtcl1Underflow
          THEN (tfBufferSizeInBytes \div (tfStride * 4)) \div 2
          ELSE tfBufferSizeInBytes \div (tfStride * 4)
      byTfBuffer == Min(byOffChip, tfBufferPatchCountLimit)
      byControlWord ==
        IF cfg.tess.offChip
          THEN Min(byTfBuffer, (tfBufferSizeInBytes - byTfBuffer * 4) \div (tfStride * 4))
          ELSE byTfBuffer
  IN IF cfg.gpu.miscLoadBalancePerWatt
       THEN Min(byControlWord, cfg.gpu.waveSize \div maxThreadCountPerPatch)
       ELSE byControlWord

\* the condition under which processShader initializes the calculation factors
IsUninitialized(factor) ==
  /\ factor.inVertexStride = InvalidValue
  /\ factor.outVertexStride = InvalidValue
  /\ factor.patchCountPerThreadGroup = InvalidValue
  /\ factor.outPatchSize = InvalidValue
  /\ factor.patchConstSize = InvalidValue

\* the calculation factors that processShader of a function of 'stage' assigns
ComputedCalcFactor(factor, stage) ==
  LET hasTcs == "tcs" \in cfg.stages
      inLocCount == Max(cfg.tess.inputMapLocCount, 1)
      outLocCount == IF hasTcs THEN Max(cfg.tess.outputMapLocCount, 1)
                     ELSE Max(cfg.tess.tesInputMapLocCount, 1)
      inVertexCount == cfg.tess.patchControlPoints
      outVertexCount == IF hasTcs THEN cfg.tess.outputVertices ELSE MaxTessPatchVertices
      inVertexStride == inLocCount * 4
      outVertexStride == outLocCount * 4
      patchConstCount == IF hasTcs THEN cfg.tess.perPatchOutputMapLocCount
                         ELSE cfg.tess.tesPerPatchInputMapLocCount
      patchCountPerThreadGroup ==
        calcPatchCountPerThreadGroup(stage, inVertexCount, inVertexStride, outVertexCount,
                                     outVertexStride, patchConstCount, tessFactorStride)
      inPatchSize == inVertexCount * inVertexStride
      inPatchTotalSize == patchCountPerThreadGroup * inPatchSize
      outPatchSize == outVertexCount * outVertexStride
      outPatchTotalSize == patchCountPerThreadGroup * outPatchSize
  IN [inVertexStride |-> inVertexStride, outVertexStride |-> outVertexStride,
      patchCountPerThreadGroup |-> patchCountPerThreadGroup,
      outPatchSize |-> outPatchSize, inPatchSize |-> inPatchSize,
      patchConstSize |-> patchConstCount * 4,
      onChip |-> [outPatchStart |-> inPatchTotalSize,
                  patchConstStart |-> inPatchTotalSize + outPatchTotalSize],
      offChip |-> IF cfg.tess.offChip
                    THEN [outPatchStart |-> 0, patchConstStart |-> outPatchTotalSize]
                    ELSE factor.offChip,
      tessFactorStride |-> tessFactorStride]

\* processShader without the test for uninitialized calculation factors
processShaderCalcFactorAlways(factor, stage) ==
  IF stage \in {"tcs", "tes"} THEN ComputedCalcFactor(factor, stage) ELSE factor

\* processShader: the calculation factors of the tessellation stages
processShaderCalcFactor(factor, stage) ==
  IF stage \in {"tcs", "tes"} /\ IsUninitialized(factor)
    THEN ComputedCalcFactor(factor, stage) ELSE factor

\* gl_PrimitiveID of the vertex / evaluation shader is a function argument
processShader(f, stage) ==
  IF stage \in {"vs", "tes"} /\ usage[stage].primitiveId
    THEN FunctionArgument(f, "primitiveId") ELSE Null

\* processFunction without initPerShader
BeginFunctionWithoutInit(f, stage) ==
  /\ calcFactor' = processShaderCalcFactor(calcFactor, stage)
  /\ m_entryPoint' = f
  /\ m_shaderStage' = stage
  /\ m_primitiveId' = IF processShader(f, stage) # Null THEN processShader(f, stage)
                     ELSE m_primitiveId
  /\ pc' = "visit"
  /\ log' = Append(log, <<"begin", f>>)
  /\ UNCHANGED <<m_clipDistance, m_cullDistance, m_viewportIndex, m_layer, m_attribExports>>
  /\ UNCHANGED <<cfg, usage, expCount, calls, funcs, body, m_importCalls, m_exportCalls,
                 m_expLocs, m_tessLevelOuterInsts, m_tessLevelInnerInsts, tfBuffer, rtPos>>

\* processFunction with an initPerShader that only empties the record
BeginFunctionKeepingRegisters(f, stage) ==
  /\ calcFactor' = processShaderCalcFactor(calcFactor, stage)
  /\ m_attribExports' = NoAttribs
  /\ m_entryPoint' = f
  /\ m_shaderStage' = stage
  /\ m_primitiveId' = IF processShader(f, stage) # Null THEN processShader(f, stage)
                     ELSE m_primitiveId
  /\ pc' = "visit"
  /\ log' = Append(log, <<"begin", f>>)
  /\ UNCHANGED <<m_clipDistance, m_cullDistance, m_viewportIndex, m_layer>>
  /\ UNCHANGED <<cfg, usage, expCount, calls, funcs, body, m_importCalls, m_exportCalls,
                 m_expLocs, m_tessLevelOuterInsts, m_tessLevelInnerInsts, tfBuffer, rtPos>>

\* processFunction up to the visits: initPerShader, m_entryPoint, m_shaderStage,
\* processShader
BeginFunction(f, stage) ==
  /\ calcFactor' = processShaderCalcFactor(calcFactor, stage)
  /\ m_clipDistance' = Null
  /\ m_cullDistance' = Null
  /\ m_viewportIndex' = Null
  /\ m_layer' = Null
  /\ m_attribExports' = NoAttribs
  /\ m_entryPoint' = f
  /\ m_shaderStage' = stage
  /\ m_primitiveId' = processShader(f, stage)
  /\ pc' = "visit"
  /\ log' = Append(log, <<"begin", f>>)
  /\ UNCHANGED <<cfg, usage, expCount, calls, funcs, body, m_importCalls, m_exportCalls,
                 m_expLocs, m_tessLevelOuterInsts, m_tessLevelInnerInsts, tfBuffer, rtPos>>

\* one iteration of the entry-point loop that finds an entry point
ProcessEntryPoint ==
  /\ pc = "entry"
  /\ EntryStagesFrom(stageIdx + 1) # {}
  /\ LET i == Least(EntryStagesFrom(stageIdx + 1))
     IN /\ stageIdx' = i
        /\ BeginFunction(EntryPointOf(StageOrder[i]), StageOrder[i])
  /\ UNCHANGED fnIdx

\* one iteration of the non-entry-point loop that finds a function to process
ProcessNonEntryPoint ==
  /\ pc = "nonentry"
  /\ NonEntryFrom(Max(fnIdx, 1)) # {}
  /\ LET f == Least(NonEntryFrom(Max(fnIdx, 1)))
     IN /\ fnIdx' = f + 1
        /\ BeginFunction(f, funcs[f].stage)
  /\ UNCHANGED stageIdx

\* what a visit leaves behind
Commit(st) ==
  /\ body' = [body EXCEPT ![m_entryPoint] = st.body]
  /\ usage' = [usage EXCEPT ![m_shaderStage] = st.usage]
  /\ expCount' = [expCount EXCEPT ![m_shaderStage] = st.expCount]
  /\ m_clipDistance' = st.clip
  /\ m_cullDistance' = st.cull
  /\ m_primitiveId' = st.prim
  /\ m_viewportIndex' = st.vp
  /\ m_layer' = st.layer
  /\ m_attribExports' = st.attrib
  /\ m_expLocs' = st.expLocs
  /\ m_importCalls' = st.imports
  /\ m_exportCalls' = st.exports
  /\ m_tessLevelOuterInsts' = st.outer
  /\ m_tessLevelInnerInsts' = st.inner

\* A failed assert or an llvm_unreachable ends a build with assertions; a build
\* without them goes on.
Outcomes(st) == IF st.unreachable \/ st.asserted THEN {"abort", "goOn"} ELSE {"goOn"}

\* visitCallInsts(inputCallees), visitCallInsts(otherCallees): one call
VisitCallInst ==
  /\ UNCHANGED calcFactor
  /\ pc = "visit"
  /\ Pending(m_entryPoint) # <<>>
  /\ LET c == Pending(m_entryPoint)[1]
         st == visitCallInst(Visit0, c)
     IN /\ Commit(st)
        /\ \E o \in Outcomes(st) : pc' = IF o = "abort" THEN "abort" ELSE "visit"
        /\ log' = Append(log, <<"call", c>>)
  /\ UNCHANGED <<cfg, calls, funcs, stageIdx, fnIdx, m_entryPoint, m_shaderStage,
                 tfBuffer, rtPos>>

\* the blocks of b that end in a return
ReturnBlocks(b) ==
  LET rets == SelectIdx(b, LAMBDA item : item.k = "ret")
  IN [i \in 1..Len(rets) |-> b[rets[i]].blk]

RECURSIVE VisitReturns(_, _, _)
VisitReturns(st, blocks, k) ==
  IF k > Len(blocks) THEN st
  ELSE VisitReturns(visitReturnInst(st, blocks[k]), blocks, k + 1)

\* visitReturnInsts
VisitReturnInsts ==
  /\ UNCHANGED calcFactor
  /\ pc = "visit"
  /\ Pending(m_entryPoint) = <<>>
  /\ LET blocks == ReturnBlocks(body[m_entryPoint])
         st == VisitReturns(Visit0, blocks, 1)
     IN /\ Commit(st)
        /\ \E o \in Outcomes(st) : pc' = IF o = "abort" THEN "abort" ELSE "markdone"
        /\ log' = log \o [i \in 1..Len(blocks) |-> <<"return", m_entryPoint>>]
  /\ UNCHANGED <<cfg, calls, funcs, stageIdx, fnIdx, m_entryPoint, m_shaderStage,
                 tfBuffer, rtPos>>

\* the end of processFunction that erases the calls visited so far
MarkExportDoneErasing ==
  /\ UNCHANGED calcFactor
  /\ pc = "markdone"
  /\ body' = [f \in DOMAIN body |->
                LET kept == SelectIdx(IF f = m_entryPoint THEN markExportDone(body[f])
                                      ELSE body[f],
                                      LAMBDA item :
                                        ~(item.k = "call"
                                          /\ \E i \in 1..Len(m_importCalls \o m_exportCalls) :
                                               (m_importCalls \o m_exportCalls)[i] = item.id))
                    b == IF f = m_entryPoint THEN markExportDone(body[f]) ELSE body[f]
                IN [i \in 1..Len(kept) |-> b[kept[i]]]]
  /\ pc' = IF fnIdx = 0 /\ m_shaderStage = "tcs" THEN "tf" ELSE AfterFunction
  /\ log' = Append(log, <<"done", m_entryPoint>>)
  /\ UNCHANGED <<cfg, usage, expCount, calls, funcs, stageIdx, fnIdx, m_entryPoint,
                 m_shaderStage, m_importCalls, m_exportCalls, m_clipDistance,
                 m_cullDistance, m_primitiveId, m_viewportIndex, m_layer,
                 m_attribExports, m_expLocs, m_tessLevelOuterInsts,
                 m_tessLevelInnerInsts, tfBuffer, rtPos>>

MarkExportDone ==
  /\ UNCHANGED calcFactor
  /\ pc = "markdone"
  /\ body' = [body EXCEPT ![m_entryPoint] = markExportDone(@)]
  /\ pc' = IF fnIdx = 0 /\ m_shaderStage = "tcs" THEN "tf" ELSE AfterFunction
  /\ log' = Append(log, <<"done", m_entryPoint>>)
  /\ UNCHANGED <<cfg, usage, expCount, calls, funcs, stageIdx, fnIdx, m_entryPoint,
                 m_shaderStage, m_importCalls, m_exportCalls, m_clipDistance,
                 m_cullDistance, m_primitiveId, m_viewportIndex, m_layer,
                 m_attribExports, m_expLocs, m_tessLevelOuterInsts,
                 m_tessLevelInnerInsts, tfBuffer, rtPos>>

\* storeTessFactors, called after the entry point of the control shader
StoreTessFactors ==
  /\ UNCHANGED calcFactor
  /\ pc = "tf"
  /\ \E ub \in {"alias", "crash"} :
       LET r == storeTessFactors(ub)
       IN /\ body' = r.body
          /\ pc' = IF r.crash THEN "crash" ELSE AfterFunction
  /\ log' = Append(log, <<"tf", m_entryPoint>>)
  /\ UNCHANGED <<cfg, usage, expCount, calls, funcs, stageIdx, fnIdx, m_entryPoint,
                 m_shaderStage, m_importCalls, m_exportCalls, m_clipDistance,
                 m_cullDistance, m_primitiveId, m_viewportIndex, m_layer,
                 m_attribExports, m_expLocs, m_tessLevelOuterInsts,
                 m_tessLevelInnerInsts, tfBuffer, rtPos>>

\* eraseFromParent of every call in the list
EraseFromParent(b, list) ==
  LET kept == SelectIdx(b, LAMBDA item : ~(item.k = "call" /\ item.id \in SeqToSet(list)))
  IN [i \in 1..Len(kept) |-> b[kept[i]]]

\* the end of runImpl: the visited import and export calls are erased
EraseCalls ==
  /\ UNCHANGED calcFactor
  /\ pc = "nonentry"
  /\ NonEntryFrom(Max(fnIdx, 1)) = {}
  /\ body' = [f \in DOMAIN body |-> EraseFromParent(body[f], m_importCalls \o m_exportCalls)]
  /\ m_importCalls' = <<>>
  /\ m_exportCalls' = <<>>
  /\ pc' = "done"
  /\ log' = Append(log, <<"erase", 0>>)
  /\ UNCHANGED <<cfg, usage, expCount, calls, funcs, stageIdx, fnIdx, m_entryPoint,
                 m_shaderStage, m_clipDistance, m_cullDistance, m_primitiveId,
                 m_viewportIndex, m_layer, m_attribExports, m_expLocs,
                 m_tessLevelOuterInsts, m_tessLevelInnerInsts, tfBuffer, rtPos>>

-----------------------------------------------------------------------------
(* The generated store function at run time *)

\* the calls of lgc.tfbuffer.store in the control shader's entry point, in
\* program order
TfStoreCalls ==
  IF EntryPointOf("tcs") = 0 THEN <<>>
  ELSE LET b == body[EntryPointOf("tcs")]
           at == SelectIdx(b, LAMBDA item : item.k = "tfStore")
       IN [i \in 1..Len(at) |-> b[at[i]]]

\* the body of lgc.tfbuffer.store.%tfValueType: nothing for tfOffset = -1, else
\* tfValue goes to dword relPatchId * tfStride + tfOffset of the buffer
createTessBufferStoreFunction(buffer, relPatchId, tfStride, tfOffset, tfValue) ==
  IF tfOffset # InvalidValue
    THEN [a \in {relPatchId * tfStride + tfOffset + j : j \in 0..(Len(tfValue) - 1)} |->
            tfValue[a - (relPatchId * tfStride + tfOffset) + 1]] @@ buffer
    ELSE buffer

\* The control shader runs for the patches 0..MaxPatch, one after the other; a
\* step is one call of lgc.tfbuffer.store.
TfBufferStore ==
  /\ UNCHANGED calcFactor
  /\ pc = "done"
  /\ rtPos < (MaxPatch + 1) * Len(TfStoreCalls)
  /\ LET relPatchId == rtPos \div Len(TfStoreCalls)
         call == TfStoreCalls[(rtPos % Len(TfStoreCalls)) + 1]
     IN tfBuffer' = createTessBufferStoreFunction(tfBuffer, relPatchId, tessFactorStride,
                                                  call.tgt[2], call.src)
  /\ rtPos' = rtPos + 1
  /\ UNCHANGED <<cfg, usage, expCount, calls, funcs, body, pc, stageIdx, fnIdx,
                 m_entryPoint, m_shaderStage, m_importCalls, m_exportCalls,
                 m_clipDistance, m_cullDistance, m_primitiveId, m_viewportIndex, m_layer,
                 m_attribExports, m_expLocs, m_tessLevelOuterInsts,
                 m_tessLevelInnerInsts, log>>

-----------------------------------------------------------------------------
(* Input modules *)

\* an abstract call; fn is the function that contains it
MkCall(kind, bi) ==
  [fn |-> 0, kind |-> kind, bi |-> bi, loc |-> 0, comp |-> 0, cnt |-> 1,
   elem |-> <<"none", 0>>, arr |-> FALSE, undef |-> FALSE, mapped |-> TRUE, stream |-> 0,
   bits |-> 32, locOffset |-> <<"const", 0>>, data |-> <<"zero", "zero", "zero", "zero">>,
   vertex |-> IF kind = "inGeneric" THEN <<"const", 0>> ELSE <<"none", 0>>]

Function(stage, entry) == [stage |-> stage, entry |-> entry, decl |-> FALSE]
Declaration == [stage |-> "invalid", entry |-> FALSE, decl |-> TRUE]

\* the calls of a module: those options whose index is in 'chosen', in order
ChosenCalls(options, chosen) ==
  LET idx == SortedSeq(chosen) IN [k \in 1..Len(idx) |-> options[idx[k]]]

\* every call option of 'menu' (stage -> templates) in every function of a stage
\* that has a menu
RECURSIVE OptionsOf(_, _, _)
OptionsOf(fns, menu, f) ==
  IF f > Len(fns) THEN <<>>
  ELSE (IF fns[f].stage \in DOMAIN menu /\ ~fns[f].decl
          THEN [k \in 1..Len(menu[fns[f].stage]) |->
                  [menu[fns[f].stage][k] EXCEPT !.fn = f]]
          ELSE <<>>)
       \o OptionsOf(fns, menu, f + 1)

\* Resource usage is collected from the same calls by an earlier pass: a stage
\* uses a built-in output iff one of its functions exports it.
WrittenBy(fns, cs, stage, builtInId) ==
  {c \in 1..Len(cs) : /\ fns[cs[c].fn].stage = stage
                       /\ cs[c].kind = "expBuiltIn"
                       /\ cs[c].bi = builtInId}

CountOf(cs, written) == IF written = {} THEN 0 ELSE cs[Least(written)].cnt

CollectedUsage(fns, cs, stage) ==
  [position |-> WrittenBy(fns, cs, stage, "Position") # {},
   pointSize |-> WrittenBy(fns, cs, stage, "PointSize") # {},
   clipDistance |-> CountOf(cs, WrittenBy(fns, cs, stage, "ClipDistance")),
   cullDistance |-> CountOf(cs, WrittenBy(fns, cs, stage, "CullDistance")),
   layer |-> WrittenBy(fns, cs, stage, "Layer") # {},
   viewportIndex |-> WrittenBy(fns, cs, stage, "ViewportIndex") # {},
   primitiveId |-> WrittenBy(fns, cs, stage, "PrimitiveId") # {},
   primitiveShadingRate |-> FALSE]

\* A function is one block "ret"; the copy shader with transform feedback and no
\* NGG switches on the stream id: "entry" -> "case0" | "case1" -> "ret", the
\* transform-feedback exports of a stream and (for the raster stream) the other
\* exports in its case.
CallItems(cs, f, blk, InBlk(_)) ==
  LET ids == SelectIdx(cs, LAMBDA c : c.fn = f /\ InBlk(c))
  IN [k \in 1..Len(ids) |-> InBlock(blk, Inst("call", cs[ids[k]].kind, ids[k], NoSrc))]

BodyOf(c, fns, cs, f) ==
  IF fns[f].stage = "copy" /\ c.enableXfb /\ ~c.ngg
    THEN <<InBlock("entry", Inst("switch", "streamId", 0, <<0, 1>>))>>
         \o CallItems(cs, f, "case0",
                      LAMBDA x : (IF x.kind = "expXfb" THEN x.stream ELSE c.rasterStream) = 0)
         \o <<InBlock("case0", Inst("br", "ret", 0, NoSrc))>>
         \o CallItems(cs, f, "case1",
                      LAMBDA x : (IF x.kind = "expXfb" THEN x.stream ELSE c.rasterStream) # 0)
         \o <<InBlock("case1", Inst("br", "ret", 0, NoSrc))>>
         \o <<InBlock("ret", Inst("ret", "", 0, NoSrc))>>
    ELSE CallItems(cs, f, "ret", LAMBDA x : TRUE)
         \o <<InBlock("ret", Inst("ret", "", 0, NoSrc))>>

\* the state in which runImpl starts on the module (c: pipeline state, fns: the
\* functions, cs: the calls)
InitModule(c, fns, cs) ==
  /\ cfg = c
  /\ funcs = fns
  /\ calls = cs
  /\ usage = [stage \in Stages \cup {"invalid"} |-> CollectedUsage(fns, cs, stage)]
  /\ expCount = [stage \in Stages \cup {"invalid"} |-> 0]
  /\ calcFactor = NoCalcFactor
  /\ body = [f \in 1..Len(fns) |-> IF fns[f].decl THEN <<>> ELSE BodyOf(c, fns, cs, f)]
  /\ pc = "entry"
  /\ stageIdx = 0
  /\ fnIdx = 0
  /\ m_entryPoint = 0
  /\ m_shaderStage = "invalid"
  /\ m_importCalls = <<>>
  /\ m_exportCalls = <<>>
  /\ m_clipDistance = Null
  /\ m_cullDistance = Null
  /\ m_primitiveId = Null
  /\ m_viewportIndex = Null
  /\ m_layer = Null
  /\ m_attribExports = NoAttribs
  /\ m_expLocs = {}
  /\ m_tessLevelOuterInsts = <<>>
  /\ m_tessLevelInnerInsts = <<>>
  /\ log = <<>>
  /\ tfBuffer = [a \in {} |-> Null]
  /\ rtPos = 0

NoFsUsage ==
  [clipDistance |-> 0, cullDistance |-> 0, primitiveId |-> FALSE, layer |-> FALSE,
   viewIndex |-> FALSE, viewportIndex |-> FALSE]

\* the locations of the built-in outputs that go to the fragment shader
BuiltInLocs ==
  [builtInId \in {"Position", "PointSize", "ClipDistance", "CullDistance", "PrimitiveId",
                  "Layer", "ViewIndex", "ViewportIndex"} |->
     CASE builtInId = "Position" -> 0
       [] builtInId = "PointSize" -> 1
       [] builtInId = "ClipDistance" -> 2
       [] builtInId = "CullDistance" -> 2
       [] builtInId = "PrimitiveId" -> 4
       [] builtInId = "Layer" -> 5
       [] builtInId = "ViewIndex" -> 5
       [] builtInId = "ViewportIndex" -> 6]

\* tessellation: the location counts of the resource usage, the control points
\* of the input assembly state, the output vertices of the tessellation mode
DefaultTess ==
  [inputMapLocCount |-> 1, outputMapLocCount |-> 1, tesInputMapLocCount |-> 1,
   perPatchOutputMapLocCount |-> 1, tesPerPatchInputMapLocCount |-> 1,
   patchControlPoints |-> 3, outputVertices |-> 3, offChip |-> FALSE]

\* GpuProperty and GpuWorkarounds of the target
DefaultGpu ==
  [ldsSizePerThreadGroup |-> 16384, tessOffChipLdsBufferSize |-> 32768,
   tessFactorBufferSizePerSe |-> 4096, waveSize |-> 64,
   waTessFactorBufferSizeLimitGeUtcl1Underflow |-> FALSE,
   miscLoadBalancePerWatt |-> FALSE]

\* geometry shader: the output locations of each stream, the output vertices of
\* the geometry shader mode, the calculation factors of the rings
DefaultGs ==
  [outLocCount |-> <<1, 0, 0, 0>>, outputVertices |-> 3, esGsLdsSize |-> 0,
   gsVsRingItemSize |-> 12, esGsRingItemSize |-> 4]

\* one configuration of a set of configurations, for the pipelines that do not
\* use it
DefaultOf(S) == CHOOSE config \in S : TRUE

Pipeline(stages) ==
  [gfx |-> 10, stages |-> stages, multiView |-> FALSE, primMode |-> "tri",
   primType |-> "Triangle_List",
   enableXfb |-> FALSE, ngg |-> FALSE, rasterStream |-> 0, gsOnChip |-> FALSE,
   unlinked |-> FALSE, outputLocs |-> {}, revUse |-> FALSE, tfLds |-> <<FALSE, FALSE>>,
   fs |-> NoFsUsage, builtInOutLoc |-> BuiltInLocs,
   tess |-> DefaultTess, waveSize |-> [stage \in Stages |-> 64], gpu |-> DefaultGpu,
   perPatchBuiltInOutLoc |-> [outer |-> 0, inner |-> 1],
   perPatchBuiltInInLoc |-> [outer |-> 0, inner |-> 1], gs |-> DefaultGs]

-----------------------------------------------------------------------------
(* Specification of the driver: whole pipelines, a few calls *)

\* the modules: graphics with and without tessellation and geometry shader, and
\* compute; each with a helper function, a function of no stage and a declaration
DriverModules ==
  { [stages |-> {"vs", "fs"},
     fns |-> <<Function("vs", TRUE), Function("fs", TRUE), Function("vs", FALSE),
               Function("invalid", FALSE), Declaration>>],
    [stages |-> {"vs", "tcs", "tes", "fs"},
     fns |-> <<Function("vs", TRUE), Function("tcs", TRUE), Function("tes", TRUE),
               Function("fs", TRUE), Function("tcs", FALSE), Declaration>>],
    [stages |-> {"vs", "gs", "copy", "fs"},
     fns |-> <<Function("vs", TRUE), Function("gs", TRUE), Function("copy", TRUE),
               Function("fs", TRUE), Declaration>>],
    [stages |-> {"cs"},
     fns |-> <<Function("cs", TRUE), Function("invalid", FALSE), Declaration>>] }

DriverMenu ==
  [stage \in {"vs", "tcs", "tes", "gs", "fs", "copy"} |->
     CASE stage = "vs" ->
            <<MkCall("inBuiltIn", "VertexIndex"), MkCall("expGeneric", "none"),
              MkCall("expBuiltIn", "Position")>>
       [] stage = "tcs" ->
            <<MkCall("inGeneric", "none"), MkCall("outImpGeneric", "none"),
              MkCall("outImpBuiltIn", "TessLevelOuter"), MkCall("expGeneric", "none"),
              [MkCall("expBuiltIn", "TessLevelOuter") EXCEPT !.elem = <<"const", 0>>]>>
       [] stage = "tes" ->
            <<MkCall("inBuiltIn", "TessCoord"), MkCall("expBuiltIn", "Position"),
              [MkCall("expGeneric", "none") EXCEPT !.mapped = FALSE]>>
       [] stage = "gs" ->
            <<MkCall("inGeneric", "none"), MkCall("expGeneric", "none"),
              MkCall("sendmsg", "emit")>>
       [] stage = "fs" ->
            <<MkCall("inGeneric", "none"), MkCall("inInterp", "none"),
              MkCall("expBuiltIn", "FragDepth")>>
       [] stage = "copy" ->
            <<MkCall("expGeneric", "none"), MkCall("expBuiltIn", "Position"),
              MkCall("expXfb", "none")>>]

Init ==
  \E m \in DriverModules, revUse \in BOOLEAN :
    LET options == OptionsOf(m.fns, DriverMenu, 1) IN
    \E chosen \in SUBSET (1..Len(options)) :
      /\ Cardinality(chosen) <= MaxCalls
      /\ InitModule([Pipeline(m.stages) EXCEPT !.revUse = revUse], m.fns,
                    ChosenCalls(options, chosen))

Next ==
  \/ ProcessEntryPoint
  \/ VisitCallInst
  \/ VisitReturnInsts
  \/ MarkExportDone
  \/ StoreTessFactors
  \/ ProcessNonEntryPoint
  \/ EraseCalls
  \/ TfBufferStore

Spec == Init /\ [][Next]_vars

-----------------------------------------------------------------------------
(* Specification of the exports: the last vertex-processing stage with every
   combination of built-in outputs *)

\* the calls a last vertex-processing stage can hold: one per output
ExportMenu ==
  <<MkCall("expBuiltIn", "Position"),
    MkCall("expBuiltIn", "PointSize"),
    [MkCall("expBuiltIn", "ClipDistance") EXCEPT !.cnt = 4],
    [MkCall("expBuiltIn", "CullDistance") EXCEPT !.cnt = 2],
    MkCall("expBuiltIn", "Layer"),
    MkCall("expBuiltIn", "ViewportIndex"),
    MkCall("expGeneric", "none")>>

TessLevelMenu ==
  <<[MkCall("expBuiltIn", "TessLevelOuter") EXCEPT !.elem = <<"const", 0>>]>>

\* vertex shader; evaluation shader behind a control shader; copy shader behind
\* a geometry shader; vertex shader with a helper function
ExportModules ==
  { [stages |-> {"vs", "fs"},
     fns |-> <<Function("vs", TRUE), Function("fs", TRUE), Declaration>>,
     menu |-> [stage \in {"vs"} |-> ExportMenu], xfb |-> {FALSE}],
    [stages |-> {"vs", "tcs", "tes", "fs"},
     fns |-> <<Function("vs", TRUE), Function("tcs", TRUE), Function("tes", TRUE),
               Function("fs", TRUE)>>,
     menu |-> [stage \in {"tes", "tcs"} |->
                 IF stage = "tes" THEN ExportMenu ELSE TessLevelMenu],
     xfb |-> {FALSE}],
    [stages |-> {"vs", "gs", "copy", "fs"},
     fns |-> <<Function("vs", TRUE), Function("gs", TRUE), Function("copy", TRUE),
               Function("fs", TRUE)>>,
     menu |-> [stage \in {"copy"} |->
                 ExportMenu \o <<[MkCall("expXfb", "none") EXCEPT !.stream = 1]>>],
     xfb |-> BOOLEAN],
    [stages |-> {"vs", "fs"},
     fns |-> <<Function("vs", TRUE), Function("fs", TRUE), Function("vs", FALSE)>>,
     menu |-> [stage \in {"vs"} |->
                 <<MkCall("expBuiltIn", "Position"), MkCall("expGeneric", "none")>>],
     xfb |-> {FALSE}] }

\* what the fragment shader reads of the built-in outputs: nothing, or all
FsUsages ==
  { NoFsUsage,
    [clipDistance |-> 4, cullDistance |-> 2, primitiveId |-> FALSE, layer |-> TRUE,
     viewIndex |-> TRUE, viewportIndex |-> TRUE] }

InitExp ==
  \E m \in ExportModules, revUse \in BOOLEAN, gfx \in {8, 10}, multiView \in BOOLEAN,
     fs \in FsUsages :
    \E enableXfb \in m.xfb, rasterStream \in {0, 1} :
      LET options == OptionsOf(m.fns, m.menu, 1) IN
      \E chosen \in SUBSET (1..Len(options)) :
        /\ enableXfb \/ rasterStream = 0
        /\ \A k \in 1..Len(options) : options[k].bi = "TessLevelOuter" => k \in chosen
        \* with multi-view the copy shader exports the view index as gl_Layer
        /\ \A k \in 1..Len(options) :
             (multiView /\ m.fns[options[k].fn].stage = "copy" /\ options[k].bi = "Layer")
               => k \in chosen
        /\ InitModule([Pipeline(m.stages) EXCEPT !.revUse = revUse, !.gfx = gfx,
                                                !.multiView = multiView, !.fs = fs,
                                                !.enableXfb = enableXfb,
                                                !.rasterStream = rasterStream],
                      m.fns, ChosenCalls(options, chosen))

SpecExp == InitExp /\ [][Next]_vars

-----------------------------------------------------------------------------
(* Specification of the tessellation factors: a control shader with every
   combination of tessellation-level writes, and its stores at run time *)

\* the element indices of a write: constant or computed at run time
ElemOptions ==
  [n \in 1..(2 * (MaxElemIdx + 1)) |->
     <<IF n <= MaxElemIdx + 1 THEN "const" ELSE "dyn", (n - 1) % (MaxElemIdx + 1)>>]

\* the writes of one bucket in the entry point (function 1): one write of the
\* whole array (float[4] outer, float[2] inner), or one write per chosen element
TessWrites(builtInId, wholeArray, elems) ==
  IF wholeArray
    THEN <<[MkCall("expBuiltIn", builtInId) EXCEPT
              !.fn = 1, !.arr = TRUE, !.cnt = IF builtInId = "TessLevelOuter" THEN 4 ELSE 2]>>
    ELSE LET idx == SortedSeq(elems)
         IN [k \in 1..Len(idx) |->
               [MkCall("expBuiltIn", builtInId) EXCEPT !.fn = 1, !.elem = ElemOptions[idx[k]]]]

InitTF ==
  \E primMode \in {"tri", "quad", "iso"}, revUse \in BOOLEAN, lds \in BOOLEAN,
     outerArray \in BOOLEAN, innerArray \in BOOLEAN :
    \E outerElems \in SUBSET (1..Len(ElemOptions)), innerElems \in SUBSET (1..Len(ElemOptions)) :
      /\ Cardinality(outerElems) + Cardinality(innerElems) <= MaxTessWrites
      /\ outerArray => outerElems = {}
      /\ innerArray => innerElems = {}
      /\ InitModule([Pipeline({"vs", "tcs", "tes", "fs"}) EXCEPT
                       !.primMode = primMode, !.revUse = revUse, !.tfLds = <<lds, lds>>],
                    <<Function("tcs", TRUE), Function("tcs", FALSE), Declaration>>,
                    TessWrites("TessLevelOuter", outerArray, outerElems)
                      \o TessWrites("TessLevelInner", innerArray, innerElems))

SpecTF == InitTF /\ [][Next]_vars

-----------------------------------------------------------------------------
(* Specification of the attribute exports: the last vertex-processing stage
   with generic outputs of several widths that share locations, and the
   built-in outputs that the return handling mirrors as generic outputs *)

\* generic outputs of a vertex or evaluation shader: a vec2 and a 16-bit scalar
\* in location 0, a dvec3 in locations 0 and 1, a vec2 in the upper half of
\* location 1
GenericMenu ==
  <<[MkCall("expGeneric", "none") EXCEPT !.cnt = 2],
    [MkCall("expGeneric", "none") EXCEPT !.comp = 2, !.bits = 16],
    [MkCall("expGeneric", "none") EXCEPT !.cnt = 3, !.bits = 64],
    [MkCall("expGeneric", "none") EXCEPT !.loc = 1, !.comp = 2, !.cnt = 2]>>

\* the copy shader exports each location of the raster stream as one vector
CopyGenericMenu ==
  <<[MkCall("expGeneric", "none") EXCEPT !.cnt = 4],
    [MkCall("expGeneric", "none") EXCEPT !.loc = 1, !.cnt = 2]>>

DeferredMenu ==
  <<MkCall("expBuiltIn", "Position"),
    [MkCall("expBuiltIn", "ClipDistance") EXCEPT !.cnt = 4],
    MkCall("expBuiltIn", "Layer"),
    MkCall("expBuiltIn", "ViewportIndex")>>

\* the channels (32 bits each) of the locations that a generic output occupies
ChannelsOf(call) ==
  LET width == IF call.bits = 64 THEN 2 ELSE 1
  IN {<<call.loc + (ch \div 4), ch % 4>> :
        ch \in (call.comp * width)..((call.comp + call.cnt) * width - 1)}

\* the interface of a shader gives no channel to two outputs
DisjointOutputs(cs) ==
  \A c, d \in 1..Len(cs) :
    (c < d /\ cs[c].fn = cs[d].fn /\ cs[c].kind = "expGeneric" /\ cs[d].kind = "expGeneric")
      => ChannelsOf(cs[c]) \cap ChannelsOf(cs[d]) = {}

AttribModules ==
  { [stages |-> {"vs", "fs"},
     fns |-> <<Function("vs", TRUE), Function("fs", TRUE), Declaration>>,
     menu |-> [stage \in {"vs"} |-> DeferredMenu \o GenericMenu]],
    [stages |-> {"vs", "tcs", "tes", "fs"},
     fns |-> <<Function("vs", TRUE), Function("tcs", TRUE), Function("tes", TRUE),
               Function("fs", TRUE)>>,
     menu |-> [stage \in {"tes", "tcs"} |->
                 IF stage = "tes" THEN SubSeq(DeferredMenu, 3, 4) \o SubSeq(GenericMenu, 1, 2)
                 ELSE TessLevelMenu]],
    [stages |-> {"vs", "gs", "copy", "fs"},
     fns |-> <<Function("vs", TRUE), Function("gs", TRUE), Function("copy", TRUE),
               Function("fs", TRUE)>>,
     menu |-> [stage \in {"copy"} |-> SubSeq(DeferredMenu, 1, 3) \o CopyGenericMenu]],
    [stages |-> {"vs", "fs"},
     fns |-> <<Function("vs", TRUE), Function("fs", TRUE), Function("vs", FALSE)>>,
     menu |-> [stage \in {"vs"} |-> SubSeq(GenericMenu, 1, 1) \o SubSeq(DeferredMenu, 2, 2)]] }

InitAttrib ==
  \E m \in AttribModules, gfx \in {8, 9, 10}, multiView \in BOOLEAN, fs \in FsUsages :
    LET options == OptionsOf(m.fns, m.menu, 1) IN
    \E chosen \in SUBSET (1..Len(options)) :
      /\ \A k \in 1..Len(options) : options[k].bi = "TessLevelOuter" => k \in chosen
      /\ \A k \in 1..Len(options) :
           (multiView /\ m.fns[options[k].fn].stage = "copy" /\ options[k].bi = "Layer")
             => k \in chosen
      /\ DisjointOutputs(ChosenCalls(options, chosen))
      /\ InitModule([Pipeline(m.stages) EXCEPT !.gfx = gfx, !.multiView = multiView,
                                              !.fs = fs],
                    m.fns, ChosenCalls(options, chosen))

SpecAttrib == InitAttrib /\ [][Next]_vars

-----------------------------------------------------------------------------
(* Specification of the calculation factors: tessellation pipelines with and
   without a control shader, with helper functions of both tessellation
   stages, over location counts, patch sizes and hardware limits *)

CalcModules ==
  { [stages |-> {"vs", "tcs", "tes", "fs"},
     fns |-> <<Function("vs", TRUE), Function("tcs", TRUE), Function("tes", TRUE),
               Function("fs", TRUE), Function("tcs", FALSE), Function("tes", FALSE)>>],
    [stages |-> {"vs", "tcs", "tes", "fs"},
     fns |-> <<Function("tcs", TRUE), Function("tcs", FALSE)>>],
    [stages |-> {"tes", "fs"},
     fns |-> <<Function("tes", TRUE), Function("tes", FALSE), Declaration>>] }

\* the tessellation inputs of processShader
TessInputs ==
  [inputMapLocCount : {0, 2}, outputMapLocCount : {0, 3}, tesInputMapLocCount : {1},
   perPatchOutputMapLocCount : {0, 2}, tesPerPatchInputMapLocCount : {1},
   patchControlPoints : {1, 3}, outputVertices : {4}, offChip : BOOLEAN]

\* targets with and without the workarounds that limit the patch count
GpuTargets ==
  [ldsSizePerThreadGroup : {16384}, tessOffChipLdsBufferSize : {32768},
   tessFactorBufferSizePerSe : {4096}, waveSize : {64},
   waTessFactorBufferSizeLimitGeUtcl1Underflow : BOOLEAN,
   miscLoadBalancePerWatt : BOOLEAN]

InitCalc ==
  \E m \in CalcModules, gfx \in {8, 10}, primMode \in {"tri", "quad", "iso"},
     tess \in TessInputs, gpu \in GpuTargets, tcsWave \in {32, 64}, tesWave \in {32, 64} :
    LET options == OptionsOf(m.fns, [stage \in {"tcs"} |-> TessLevelMenu], 1) IN
    /\ gpu.waTessFactorBufferSizeLimitGeUtcl1Underflow => gfx = 10
    /\ gpu.miscLoadBalancePerWatt => gfx = 8
    /\ InitModule([Pipeline(m.stages) EXCEPT
                     !.gfx = gfx, !.primMode = primMode, !.tess = tess, !.gpu = gpu,
                     !.waveSize = [stage \in Stages |->
                                     CASE stage = "tcs" -> tcsWave
                                       [] stage = "tes" -> tesWave
                                       [] OTHER -> 64]],
                   m.fns,
                   SelectSeq(options, LAMBDA call : m.fns[call.fn].entry))

SpecCalc == InitCalc /\ [][Next]_vars

-----------------------------------------------------------------------------
(* Specification of the storage: tessellation and geometry pipelines whose
   calls read and write the LDS, the off-chip LDS buffer and the GS-VS ring *)

\* most calls of a module
MaxLdsCalls == 2

LdsModules ==
  { [stages |-> {"vs", "tcs", "tes", "fs"},
     fns |-> <<Function("vs", TRUE), Function("tcs", TRUE), Function("tes", TRUE),
               Function("fs", TRUE), Function("tcs", FALSE)>>],
    [stages |-> {"vs", "gs", "copy", "fs"},
     fns |-> <<Function("vs", TRUE), Function("gs", TRUE), Function("fs", TRUE)>>] }

\* the locations of the built-in outputs of the stages before the rasterizer:
\* generic outputs are at location 0
LdsBuiltInLocs == [BuiltInLocs EXCEPT !["Position"] = 1, !["ClipDistance"] = 2]

\* per-patch outputs: the tessellation levels at locations 0 and 1, generic
\* outputs at location 2
LdsTessInputs ==
  [inputMapLocCount : {3}, outputMapLocCount : {3}, tesInputMapLocCount : {3},
   perPatchOutputMapLocCount : {3}, tesPerPatchInputMapLocCount : {3},
   patchControlPoints : {3}, outputVertices : {2, 4}, offChip : BOOLEAN]

LdsGsInputs ==
  [outLocCount : {<<3, 0, 0, 0>>, <<2, 1, 0, 0>>}, outputVertices : {3},
   esGsLdsSize : {64}, gsVsRingItemSize : {36}, esGsRingItemSize : {13}]

LdsMenu ==
  [stage \in {"vs", "tcs", "tes", "gs"} |->
     CASE stage = "vs" ->
            <<[MkCall("expGeneric", "none") EXCEPT !.cnt = 4],
              [MkCall("expGeneric", "none") EXCEPT !.bits = 64, !.comp = 1],
              MkCall("expBuiltIn", "Position"),
              [MkCall("expBuiltIn", "ClipDistance") EXCEPT !.cnt = 4]>>
       [] stage = "tcs" ->
            <<[MkCall("inGeneric", "none") EXCEPT !.cnt = 4, !.vertex = <<"dyn", 2>>],
              [MkCall("inGeneric", "none") EXCEPT !.locOffset = <<"dyn", 1>>,
                                                  !.elem = <<"dyn", 3>>, !.vertex = <<"id", 0>>],
              [MkCall("expGeneric", "none") EXCEPT !.cnt = 4, !.vertex = <<"id", 0>>],
              [MkCall("expGeneric", "none") EXCEPT !.bits = 64, !.cnt = 2, !.loc = 2],
              [MkCall("outImpGeneric", "none") EXCEPT !.cnt = 4, !.vertex = <<"dyn", 1>>],
              [MkCall("outImpBuiltIn", "TessLevelOuter") EXCEPT !.cnt = 4],
              [MkCall("expBuiltIn", "Position") EXCEPT !.vertex = <<"id", 0>>],
              [MkCall("expBuiltIn", "TessLevelOuter") EXCEPT !.arr = TRUE, !.cnt = 4],
              [MkCall("expBuiltIn", "TessLevelOuter") EXCEPT !.elem = <<"const", 1>>]>>
       [] stage = "tes" ->
            <<[MkCall("inGeneric", "none") EXCEPT !.cnt = 4, !.vertex = <<"dyn", 1>>],
              [MkCall("inGeneric", "none") EXCEPT !.bits = 64, !.cnt = 2, !.loc = 2,
                                                  !.vertex = <<"none", 0>>],
              [MkCall("inBuiltIn", "TessLevelOuter") EXCEPT !.cnt = 4],
              MkCall("expBuiltIn", "Position")>>
       [] stage = "gs" ->
            <<[MkCall("expGeneric", "none") EXCEPT !.cnt = 4],
              [MkCall("expGeneric", "none") EXCEPT !.bits = 64, !.cnt = 2, !.loc = 1],
              [MkCall("expGeneric", "none") EXCEPT !.stream = 1],
              MkCall("sendmsg", "emit")>>]

\* perPatchBuiltInOutputLocMap holds a tessellation level iff the control
\* shader or the evaluation shader reads it
ReadsTessLevel(cs, builtInId) ==
  \E k \in 1..Len(cs) : cs[k].kind \in {"inBuiltIn", "outImpBuiltIn"} /\ cs[k].bi = builtInId

\* the subsets of S of at most n elements
RECURSIVE SubsetsUpTo(_, _)
SubsetsUpTo(S, n) ==
  IF n = 0 THEN {{}}
  ELSE LET smaller == SubsetsUpTo(S, n - 1)
       IN smaller \cup {x \cup {e} : x \in smaller, e \in S}

\* A tessellation pipeline writes gl_TessLevelOuter once, as an array or as an
\* element; the calls are in the entry points.
InitLds ==
  \E m \in LdsModules, tess \in LdsTessInputs, gs \in LdsGsInputs, gsOnChip \in BOOLEAN :
    /\ "tcs" \in m.stages \/ tess = DefaultOf(LdsTessInputs)
    /\ "gs" \in m.stages \/ (gs = DefaultOf(LdsGsInputs) /\ ~gsOnChip)
    /\ LET options == OptionsOf(m.fns, LdsMenu, 1)
           entry == SelectSeq(options, LAMBDA call : m.fns[call.fn].entry)
           tessLevel == {k \in 1..Len(entry) : /\ entry[k].kind = "expBuiltIn"
                                                /\ entry[k].bi = "TessLevelOuter"}
           writes == IF tessLevel = {} THEN {{}} ELSE {{k} : k \in tessLevel}
       IN \E write \in writes :
            \E others \in SubsetsUpTo((1..Len(entry)) \ tessLevel, MaxLdsCalls) :
              LET cs == ChosenCalls(entry, write \cup others)
              IN InitModule([Pipeline(m.stages) EXCEPT
                               !.tess = tess, !.gs = gs, !.gsOnChip = gsOnChip,
                               !.builtInOutLoc = LdsBuiltInLocs,
                               !.tfLds = <<ReadsTessLevel(cs, "TessLevelOuter"), FALSE>>],
                             m.fns, cs)

SpecLds == InitLds /\ [][Next]_vars

-----------------------------------------------------------------------------
(* Specification of the marshalling: one output of every width, arity and bit
   pattern, stored to the LDS, the off-chip LDS buffer or the ES-GS ring *)

MarshalWidths == {8, 16, 32, 64}
MarshalArities == 1..4

\* the bit patterns of the elements of a value
MarshalData ==
  { <<"zero", "zero", "zero", "zero">>, <<"ones", "ones", "ones", "ones">>,
    <<"nan", "nan", "nan", "nan">>, <<"mixed", "mixed", "mixed", "mixed">>,
    <<"mixed", "zero", "ones", "nan">>, <<"nan", "mixed", "zero", "ones">> }

\* tessellation (GFX6 has no 3-dword buffer access), geometry shader after the
\* vertex shader and after the evaluation shader (the ES-GS ring is a buffer up
\* to GFX8 unless the geometry shader is on-chip)
MarshalModules ==
  { [stages |-> {"vs", "tcs", "tes", "fs"}, gfx |-> {6, 10},
     fns |-> <<Function("vs", TRUE), Function("tcs", TRUE), Function("tes", TRUE),
               Function("fs", TRUE), Function("tcs", FALSE)>>],
    [stages |-> {"vs", "gs", "copy", "fs"}, gfx |-> {8, 10},
     fns |-> <<Function("vs", TRUE), Function("gs", TRUE), Function("fs", TRUE)>>],
    [stages |-> {"vs", "tcs", "tes", "gs", "copy", "fs"}, gfx |-> {8, 10},
     fns |-> <<Function("vs", TRUE), Function("tcs", TRUE), Function("tes", TRUE),
               Function("gs", TRUE), Function("fs", TRUE)>>] }

\* the outputs of width 'bits' and 'cnt' components, and the built-in outputs,
\* that are stored
MarshalMenu(bits, cnt, data) ==
  LET Generic == [MkCall("expGeneric", "none") EXCEPT !.bits = bits, !.cnt = cnt,
                                                      !.data = data]
      BuiltIn(builtInId) == [MkCall("expBuiltIn", builtInId) EXCEPT !.data = data]
  IN [stage \in {"vs", "tcs", "tes"} |->
        CASE stage = "vs" ->
               <<Generic, BuiltIn("Position"),
                 [BuiltIn("ClipDistance") EXCEPT !.cnt = cnt]>>
          [] stage = "tcs" ->
               <<[Generic EXCEPT !.vertex = <<"id", 0>>],
                 [Generic EXCEPT !.loc = 2],
                 [BuiltIn("Position") EXCEPT !.vertex = <<"id", 0>>],
                 [BuiltIn("ClipDistance") EXCEPT !.cnt = cnt, !.vertex = <<"id", 0>>],
                 [BuiltIn("TessLevelOuter") EXCEPT !.arr = TRUE, !.cnt = 4],
                 [BuiltIn("TessLevelOuter") EXCEPT !.elem = <<"const", 1>>]>>
          [] stage = "tes" ->
               <<Generic, BuiltIn("Position"),
                 [BuiltIn("ClipDistance") EXCEPT !.cnt = cnt]>>]

\* One output of the menu in an entry point; a control shader writes
\* gl_TessLevelOuter, once.
InitMarshal ==
  \E m \in MarshalModules, bits \in MarshalWidths, cnt \in MarshalArities,
     data \in MarshalData, offChip \in BOOLEAN, gsOnChip \in BOOLEAN :
    \E gfx \in m.gfx :
      /\ "tcs" \in m.stages \/ ~offChip
      /\ ("gs" \in m.stages /\ gfx = 8) \/ ~gsOnChip
      /\ LET options == OptionsOf(m.fns, MarshalMenu(bits, cnt, data), 1)
             entry == SelectSeq(options, LAMBDA call : m.fns[call.fn].entry)
             tessLevel == {k \in 1..Len(entry) : entry[k].bi = "TessLevelOuter"}
             writes == IF tessLevel = {} THEN {{}} ELSE {{k} : k \in tessLevel}
         IN \E write \in writes, output \in (1..Len(entry)) \ tessLevel :
              InitModule([Pipeline(m.stages) EXCEPT
                            !.gfx = gfx, !.gsOnChip = gsOnChip,
                            !.tess = [DefaultOf(LdsTessInputs) EXCEPT !.offChip = offChip],
                            !.gs = DefaultOf(LdsGsInputs),
                            !.builtInOutLoc = LdsBuiltInLocs,
                            !.tfLds = <<TRUE, FALSE>>],
                         m.fns, ChosenCalls(entry, write \cup {output}))

SpecMarshal == InitMarshal /\ [][Next]_vars

-----------------------------------------------------------------------------
(* Properties of the driver *)

\* the positions of an event in the log
EventsOf(kind, id) == {i \in 1..Len(log) : log[i] = <<kind, id>>}

CallsOf(f) == {c \in 1..Len(calls) : calls[c].fn = f}

\* the abstract import / export operations: calls of lgc.input.* and lgc.output.*
IsAbstractOp(c) == calls[c].kind # "sendmsg"

IsOutputImport(c) == calls[c].kind \in {"outImpGeneric", "outImpBuiltIn"}

\* the functions processFunction is called for
IsProcessed(f) == ~funcs[f].decl /\ funcs[f].stage # "invalid"

VisitedBefore(c, d) ==
  \A j \in EventsOf("call", d) : \E i \in EventsOf("call", c) : i < j

ReturnAfterCalls ==
  \A f \in 1..Len(funcs) : \A i \in EventsOf("return", f) : \A c \in CallsOf(f) :
    \E j \in EventsOf("call", c) : j < i

\* C6 as stated: within a function every import - of an input or of an output -
\* is lowered before any export or message, and the return handling is last.
C6_AllImportsBeforeExports ==
  /\ \A c, d \in 1..Len(calls) :
       (/\ calls[c].fn = calls[d].fn
        /\ (IsInputCallee(c) \/ IsOutputImport(c))
        /\ ~(IsInputCallee(d) \/ IsOutputImport(d))
        /\ d \in Visited)
       => (c \in Visited /\ VisitedBefore(c, d))
  /\ ReturnAfterCalls

\* C6: within a function every import of an input is lowered before any import
\* of an output, export or message, and the return handling is last.
C6_InputImportsFirst ==
  /\ \A c, d \in 1..Len(calls) :
       (/\ calls[c].fn = calls[d].fn
        /\ IsInputCallee(c)
        /\ ~IsInputCallee(d)
        /\ d \in Visited)
       => (c \in Visited /\ VisitedBefore(c, d))
  /\ ReturnAfterCalls

\* a processed function with an input import, an output import and an export
C6_Witness ==
  \E f \in 1..Len(funcs) :
    /\ EventsOf("return", f) # {}
    /\ \E c \in CallsOf(f) : IsInputCallee(c)
    /\ \E c \in CallsOf(f) : IsOutputImport(c)
    /\ \E c \in CallsOf(f) : calls[c].kind = "expGeneric"

IsTessLevelWrite(c) ==
  /\ calls[c].kind = "expBuiltIn"
  /\ calls[c].bi \in {"TessLevelOuter", "TessLevelInner"}
  /\ funcs[calls[c].fn].stage = "tcs"

\* C8 as stated: storeTessFactors runs at most once, once when the pass is done
\* on a module with a control shader, and only after every tessellation-level
\* write of the control shader, in all of its functions, has been visited.
C8_FinalizerAfterAllWrites ==
  LET runs == {i \in 1..Len(log) : log[i][1] = "tf"} IN
  /\ Cardinality(runs) <= 1
  /\ (pc = "done" /\ EntryPointOf("tcs") # 0) => runs # {}
  /\ \A i \in runs : \A c \in 1..Len(calls) :
       IsTessLevelWrite(c) => \E j \in EventsOf("call", c) : j < i

-----------------------------------------------------------------------------
(* Properties of the exports *)

\* the execution paths of a function, as sets of blocks
Paths(b) ==
  IF \E i \in 1..Len(b) : b[i].k = "switch"
    THEN {{"entry", "case0", "ret"}, {"entry", "case1", "ret"}}
    ELSE {{"ret"}}

\* the built-in outputs an export instruction carries
BuiltInsOf(item) ==
  IF item.k # "exp" THEN {}
  ELSE CASE item.what \in {"Position", "dummyPosition"} -> {"Position"}
         [] item.what = "ClipCullDistance" -> {"ClipDistance", "CullDistance"}
         [] item.what = "Layer" -> {"Layer"}
         [] item.what = "ViewportIndex" -> {"ViewportIndex"}
         [] item.what = "ViewportIndexAndLayer" -> {"ViewportIndex", "Layer"}
         [] OTHER -> {}

\* channel i (0..3) is enabled in the mask en
Enabled(en, i) == (en \div Pow2(i)) % 2 = 1

\* two export instructions write a common channel of the same target
SameChannel(x, y) ==
  /\ x.k = "exp" /\ y.k = "exp"
  /\ x.tgt = y.tgt
  /\ \E i \in 0..3 : Enabled(x.en, i) /\ Enabled(y.en, i)

\* C2: on every execution path of every function, no two export instructions
\* carry the same one of Position, ClipDistance, CullDistance, Layer and
\* ViewportIndex to the same target, and no two write the same channel of the
\* same target.
C2_SingleExport ==
  \A f \in DOMAIN body : \A path \in Paths(body[f]) :
    \A i, j \in DOMAIN body[f] :
      (i < j /\ body[f][i].blk \in path /\ body[f][j].blk \in path)
        => /\ ~SameChannel(body[f][i], body[f][j])
           /\ (body[f][i].tgt = body[f][j].tgt
                 => BuiltInsOf(body[f][i]) \cap BuiltInsOf(body[f][j]) = {})

\* a finished run with a function that exports all five built-in outputs
C2_Witness ==
  /\ pc = "done"
  /\ \E f \in DOMAIN body :
       \A builtInId \in {"Position", "ClipDistance", "CullDistance", "Layer", "ViewportIndex"} :
         \E i \in DOMAIN body[f] : builtInId \in BuiltInsOf(body[f][i])

PositionExportsOf(f) == {i \in DOMAIN body[f] : IsPositionExport(body[f][i])}

DoneExportsOf(f) == {i \in DOMAIN body[f] : body[f][i].done}

\* the done flag is on exactly one position export, which post-dominates the
\* other position exports
OneDonePostDominating(f) ==
  /\ Cardinality(DoneExportsOf(f)) = 1
  /\ DoneExportsOf(f) \subseteq PositionExportsOf(f)
  /\ \A d \in DoneExportsOf(f) : \A i \in PositionExportsOf(f) :
       PostDominates(body[f], d, i)

\* C4 as stated: after a function with position exports has been processed,
\* exactly one of them carries the done flag and post-dominates the others, and
\* on every execution path exactly one done export is executed, after every
\* other position export of the path.
C4_DoneOnEveryPath ==
  \A f \in DOMAIN body :
    (EventsOf("done", f) # {} /\ PositionExportsOf(f) # {}) =>
      /\ OneDonePostDominating(f)
      /\ \A path \in Paths(body[f]) :
           \E d \in DoneExportsOf(f) :
             /\ body[f][d].blk \in path
             /\ \A i \in PositionExportsOf(f) : body[f][i].blk \in path => i <= d

\* C4: after a function with position exports has been processed, exactly one
\* of them carries the done flag and post-dominates the others; an execution
\* path that executes a position export executes the done export, after every
\* other position export of the path.
C4_DoneOnLastExport ==
  \A f \in DOMAIN body :
    (EventsOf("done", f) # {} /\ PositionExportsOf(f) # {}) =>
      /\ OneDonePostDominating(f)
      /\ \A path \in Paths(body[f]) :
           (\E i \in PositionExportsOf(f) : body[f][i].blk \in path) =>
             \E d \in DoneExportsOf(f) :
               /\ body[f][d].blk \in path
               /\ \A i \in PositionExportsOf(f) : body[f][i].blk \in path => i <= d

\* a processed function with three position exports, the first of them in
\* program order first in the use list
C4_Witness ==
  \E f \in DOMAIN body :
    /\ EventsOf("done", f) # {}
    /\ Cardinality(PositionExportsOf(f)) >= 3
    /\ cfg.revUse

\* the functions of a last vertex-processing stage that does not write gl_Position
NeverWritesPosition(f) ==
  /\ IsProcessed(f)
  /\ UseExpInst(funcs[f].stage)
  /\ ~usage[funcs[f].stage].position
  /\ \A c \in 1..Len(calls) :
       funcs[calls[c].fn].stage = funcs[f].stage =>
         ~(calls[c].kind = "expBuiltIn" /\ calls[c].bi = "Position")

\* C5: a processed function of a last vertex-processing stage (vertex,
\* evaluation or copy shader) that does not write gl_Position has exactly one
\* export to the position target 0, with all channels enabled and the value
\* (0, 0, 0, 1).
C5_DummyPosition ==
  \A f \in DOMAIN body :
    (NeverWritesPosition(f) /\ EventsOf("return", f) # {}) =>
      LET pos0 == {i \in DOMAIN body[f] : body[f][i].k = "exp" /\ body[f][i].tgt = PosTarget(0)}
      IN /\ Cardinality(pos0) = 1
         /\ \A i \in pos0 : /\ body[f][i].src = <<ConstFP(0), ConstFP(0), ConstFP(0), ConstFP(1)>>
                            /\ body[f][i].en = 15

\* a finished run with a function that writes other outputs but not gl_Position
C5_Witness ==
  /\ pc = "done"
  /\ \E f \in DOMAIN body :
       /\ NeverWritesPosition(f)
       /\ \E i \in DOMAIN body[f] : body[f][i].k = "exp" /\ body[f][i].what = "PointSize"

-----------------------------------------------------------------------------
(* Properties of the tessellation factors *)

TcsEntry == EntryPointOf("tcs")

BuiltInOfBucket(bucket) == IF bucket = "outer" THEN "TessLevelOuter" ELSE "TessLevelInner"

\* the tessellation-level write call-sites of a bucket in the entry point
BucketCalls(bucket) ==
  {c \in 1..Len(calls) : /\ calls[c].fn = TcsEntry
                         /\ calls[c].kind = "expBuiltIn"
                         /\ calls[c].bi = BuiltInOfBucket(bucket)}

WrittenAsArray(bucket) == \E c \in BucketCalls(bucket) : calls[c].arr

\* the buffer stores generated for a bucket
StoresOf(bucket) ==
  IF TcsEntry = 0 THEN {}
  ELSE {i \in DOMAIN body[TcsEntry] :
          body[TcsEntry][i].k = "tfStore" /\ body[TcsEntry][i].what = bucket}

\* storeTessFactors has run on the entry point and returned
Finalized == TcsEntry # 0 /\ EventsOf("tf", TcsEntry) # {} /\ pc \notin {"crash", "abort"}

\* every patch has executed every store
RunComplete == pc = "done" /\ rtPos = (MaxPatch + 1) * Len(TfStoreCalls)

BucketIndex(bucket) == IF bucket = "outer" THEN 0 ELSE 1

IsolineOuter ==
  IF WrittenAsArray("outer")
    THEN LET c == CHOOSE c \in BucketCalls("outer") : TRUE
         IN <<Extract(OutputOf(c), 0), Extract(OutputOf(c), 1)>>
    ELSE LET c0 == CHOOSE c \in BucketCalls("outer") : calls[c].elem[2] = 0
             c1 == CHOOSE c \in BucketCalls("outer") : calls[c].elem[2] = 1
         IN <<OutputOf(c0), OutputOf(c1)>>

IsolineOuterWritten ==
  /\ cfg.primMode = "iso"
  /\ TcsEntry # 0
  /\ \/ WrittenAsArray("outer")
     \/ /\ Cardinality(BucketCalls("outer")) = 2
        /\ \E c \in BucketCalls("outer") : calls[c].elem[2] = 0
        /\ \E c \in BucketCalls("outer") : calls[c].elem[2] = 1

\* C9 as stated: with isolines, outer factors written as [a, b] - in one array
\* or element by element - are in the buffer as [b, a] for every patch, and the
\* pass does not fail on them.
C9_IsolineOrder ==
  IsolineOuterWritten =>
    /\ pc # "crash"
    /\ RunComplete =>
         \A relPatchId \in 0..MaxPatch :
           /\ {2 * relPatchId, 2 * relPatchId + 1} \subseteq DOMAIN tfBuffer
           /\ tfBuffer[2 * relPatchId] = IsolineOuter[2]
           /\ tfBuffer[2 * relPatchId + 1] = IsolineOuter[1]

\* the element writes of the entry point
ElementSites(bucket) == {c \in BucketCalls(bucket) : ~calls[c].arr}

InRange(bucket, c) == calls[c].elem[2] < expTessFactorCount(BucketIndex(bucket))

\* the dword of a patch that element write c of the bucket is for
FactorAddress(bucket, c, relPatchId) ==
  LET k == calls[c].elem[2]
      offset == IF bucket = "inner" THEN expTessFactorCount(0) + k
                ELSE IF cfg.primMode = "iso" THEN 1 - k ELSE k
  IN relPatchId * tessFactorStride + offset

\* C10: the store of an element write has the offset InvalidValue iff the
\* element index - constant or not - is out of the range of the topology's
\* factors; at run time such a store writes nothing, while for every patch the
\* factor of an in-range element write is in the buffer at its place unless a
\* later in-range write of the same element replaced it; the pass fails only
\* on the outer factors of an isoline written as an array, never on an index.
C10_OutOfRangeSkipped ==
  /\ pc \in {"crash", "abort"} => (cfg.primMode = "iso" /\ WrittenAsArray("outer"))
  /\ Finalized =>
       \A bucket \in {"outer", "inner"} : \A c \in ElementSites(bucket) :
         \E i \in StoresOf(bucket) :
           /\ body[TcsEntry][i].id = c
           /\ (body[TcsEntry][i].tgt[2] = InvalidValue) <=> ~InRange(bucket, c)
  /\ RunComplete =>
       \A bucket \in {"outer", "inner"} : \A c \in ElementSites(bucket) :
         IF InRange(bucket, c)
           THEN \A relPatchId \in 0..MaxPatch :
                  LET a == FactorAddress(bucket, c, relPatchId)
                      later == {d \in ElementSites(bucket) :
                                  d > c /\ InRange(bucket, d)
                                        /\ FactorAddress(bucket, d, relPatchId) = a}
                  IN /\ a \in DOMAIN tfBuffer
                     /\ later = {} => tfBuffer[a] = OutputOf(c)
           ELSE \A a \in DOMAIN tfBuffer : tfBuffer[a] # OutputOf(c)

\* all patches have run a control shader that writes one outer factor with an
\* index computed at run time that is out of range, and another one in range
C10_Witness ==
  /\ RunComplete
  /\ \E c, d \in ElementSites("outer") :
       /\ calls[c].elem[1] = "dyn" /\ ~InRange("outer", c)
       /\ InRange("outer", d)
       /\ FactorAddress("outer", d, MaxPatch) \in DOMAIN tfBuffer

-----------------------------------------------------------------------------
(* Properties of the vertex attribute export record *)

\* the step is the start of the processing of a function (initPerShader)
IsBeginStep == Len(log') = Len(log) + 1 /\ log'[Len(log')][1] = "begin"

\* the calls whose values a value is computed from
RECURSIVE CallsIn(_)
CallsIn(v) ==
  CASE v[1] = "val" -> {v[2]}
    [] v[1] \in {"elem", "bitcast", "zext", "shl"} -> CallsIn(v[2])
    [] v[1] = "or" -> CallsIn(v[2]) \cup CallsIn(v[3])
    [] OTHER -> {}

\* the generic exports of the function being processed that were lowered to
\* attribute exports
RecordedCalls ==
  {c \in Visited : /\ calls[c].fn = m_entryPoint
                    /\ calls[c].kind = "expGeneric"
                    /\ UseExpInst(m_shaderStage)}

AttribExportsOf(f, location) ==
  {i \in DOMAIN body[f] : body[f][i].k = "exp" /\ body[f][i].tgt = ParamTarget(location)}

\* the return handling of the function being processed was the last thing done
AtReturnPoint == log # <<>> /\ log[Len(log)] = <<"return", m_entryPoint>>

\* C15: when the return handling of a function is done, the function holds for
\* every location of the record exactly one export to the attribute target of
\* that location, with the four values of the entry as sources and a channel
\* mask whose bit i is set iff value i is not undefined; it holds no attribute
\* export to any other location.
C15_RecordMaterialized ==
  AtReturnPoint =>
    /\ \A location \in DOMAIN m_attribExports :
         /\ Cardinality(AttribExportsOf(m_entryPoint, location)) = 1
         /\ \A i \in AttribExportsOf(m_entryPoint, location) :
              /\ body[m_entryPoint][i].src = m_attribExports[location]
              /\ \A ch \in 0..3 :
                   Enabled(body[m_entryPoint][i].en, ch)
                     <=> ~IsUndef(m_attribExports[location][ch + 1])
    /\ \A i \in DOMAIN body[m_entryPoint] :
         (body[m_entryPoint][i].k = "exp" /\ body[m_entryPoint][i].tgt[1] = "param")
           => body[m_entryPoint][i].tgt[2] \in DOMAIN m_attribExports

\* the return handling has exported a record of three locations or more, one
\* of them with defined and undefined components
C15_Witness ==
  /\ AtReturnPoint
  /\ Cardinality(DOMAIN m_attribExports) >= 3
  /\ \E location \in DOMAIN m_attribExports : \E i \in AttribExportsOf(m_entryPoint, location) :
       body[m_entryPoint][i].en \notin {0, 15}

-----------------------------------------------------------------------------
(* Properties of the packed export of gl_ViewportIndex and gl_Layer *)

\* A 32-bit value at run time is the pair of its upper and lower 16 bits.
\* The values a shader writes for gl_Layer and gl_ViewportIndex (and the view
\* index) fit in 16 bits: the code packs them without masking.
HalfWords == {0, 1, 2047, 43690, 65535}

RECURSIVE Or16(_, _)
Or16(a, b) ==
  IF a = 0 THEN b
  ELSE IF b = 0 THEN a
  ELSE (IF a % 2 = 1 \/ b % 2 = 1 THEN 1 ELSE 0) + 2 * Or16(a \div 2, b \div 2)

\* the bits of value v when the built-in outputs have the values of env
RECURSIVE Bits(_, _)
Bits(v, env) ==
  CASE v[1] = "val" -> <<0, env[calls[v[2]].bi]>>
    [] v[1] = "arg" -> <<0, env[v[3]]>>
    [] v[1] = "const" -> <<0, v[2]>>
    [] v[1] = "bitcast" -> Bits(v[2], env)
    [] v[1] = "shl" /\ v[3] = 16 -> <<Bits(v[2], env)[2], 0>>
    [] v[1] = "or" -> <<Or16(Bits(v[2], env)[1], Bits(v[3], env)[1]),
                        Or16(Bits(v[2], env)[2], Bits(v[3], env)[2])>>

\* the exports of function f that carry gl_Layer or gl_ViewportIndex to a
\* position target
LayerExportsOf(f) ==
  {i \in DOMAIN body[f] : BuiltInsOf(body[f][i]) \cap {"Layer", "ViewportIndex"} # {}}

\* an entry point of the last vertex-processing stage on GFX9 or later that
\* uses gl_Layer (or multi-view) or gl_ViewportIndex has been handled
PackedCase ==
  /\ AtReturnPoint
  /\ funcs[m_entryPoint].entry
  /\ UseExpInst(m_shaderStage)
  /\ cfg.gfx >= 9
  /\ cfg.multiView \/ usage[m_shaderStage].layer \/ usage[m_shaderStage].viewportIndex

-----------------------------------------------------------------------------
(* Properties of the dummy generic export *)

\* the attribute exports of function f that enable no channel and have only
\* undefined sources
DummyExportsOf(f) ==
  {i \in DOMAIN body[f] : /\ body[f][i].k = "exp"
                            /\ body[f][i].tgt[1] = "param"
                            /\ body[f][i].en = 0
                            /\ body[f][i].src = Undef4}

\* the record holds a value: the function has a generic output, or a built-in
\* output that goes to the fragment shader as a generic output
HasGenericOutput ==
  \E location \in DOMAIN m_attribExports : \E i \in 1..4 :
    ~IsUndef(m_attribExports[location][i])

\* C17: when the return handling of a function of the last vertex-processing
\* stage is done on a target up to GFX9, the export count of the stage is not
\* zero; an entry point without generic output holds exactly one attribute
\* export, to location 0, with no channel enabled and undefined sources, and an
\* entry point with a generic output holds no such export; from GFX10 on no
\* such export is made.
C17_DummyGeneric ==
  (AtReturnPoint /\ UseExpInst(m_shaderStage)) =>
    IF cfg.gfx <= 9
      THEN /\ expCount[m_shaderStage] >= 1
           /\ funcs[m_entryPoint].entry =>
                IF HasGenericOutput
                  THEN DummyExportsOf(m_entryPoint) = {}
                  ELSE /\ Cardinality(DummyExportsOf(m_entryPoint)) = 1
                       /\ DummyExportsOf(m_entryPoint) = AttribExportsOf(m_entryPoint, 0)
                       /\ DOMAIN m_attribExports = {0}
                       /\ expCount[m_shaderStage] = 1
      ELSE DummyExportsOf(m_entryPoint) = {}

\* on GFX9 the return handling has given the dummy export to an entry point
\* without generic output
C17_Witness ==
  /\ AtReturnPoint
  /\ UseExpInst(m_shaderStage)
  /\ cfg.gfx = 9
  /\ funcs[m_entryPoint].entry
  /\ ~HasGenericOutput
  /\ DummyExportsOf(m_entryPoint) # {}

-----------------------------------------------------------------------------
(* Properties of the per-function state *)

\* processFunction has just started on a function
AtBegin == log # <<>> /\ log[Len(log)][1] = "begin"

\* the deferred output registers and the attribute export record are empty;
\* gl_PrimitiveID is empty or the argument of the function being processed
RegistersAndRecordEmpty ==
  /\ m_clipDistance = Null
  /\ m_cullDistance = Null
  /\ m_viewportIndex = Null
  /\ m_layer = Null
  /\ m_primitiveId \in {Null, FunctionArgument(m_entryPoint, "primitiveId")}
  /\ m_attribExports = NoAttribs

\* the writes of a tessellation level visited so far, in the order of the visits
VisitedTessLevelWrites(builtInId) ==
  LET at == SelectIdx(log, LAMBDA e : /\ e[1] = "call"
                                      /\ IsTessLevelWrite(e[2])
                                      /\ calls[e[2]].bi = builtInId)
  IN [i \in 1..Len(at) |-> log[at[i]][2]]

\* C19 as stated: when the processing of a function starts, the deferred
\* output registers, the attribute export record and the accumulator of the
\* tessellation-level writes are empty.
C19_AllScratchReset ==
  AtBegin =>
    /\ RegistersAndRecordEmpty
    /\ m_tessLevelOuterInsts = <<>>
    /\ m_tessLevelInnerInsts = <<>>

\* C19: when the processing of a function starts, the deferred output
\* registers and the attribute export record are empty, whatever was processed
\* before; the accumulator of the tessellation-level writes is never emptied:
\* it always holds every write of a tessellation level visited so far, of all
\* functions, in the order of the visits.
C19_RegistersAndRecordReset ==
  /\ AtBegin => RegistersAndRecordEmpty
  /\ m_tessLevelOuterInsts = VisitedTessLevelWrites("TessLevelOuter")
  /\ m_tessLevelInnerInsts = VisitedTessLevelWrites("TessLevelInner")

\* the processing of a function starts after a control shader whose write of
\* a tessellation level is still in the accumulator, and the function before
\* has left a deferred output and the record behind
C19_Witness ==
  /\ AtBegin
  /\ m_tessLevelOuterInsts # <<>>
  /\ \E c \in Visited : /\ calls[c].bi \in {"ClipDistance", "Layer", "ViewportIndex"}
                         /\ funcs[calls[c].fn].stage = "tes"
  /\ \E c \in Visited : calls[c].kind = "expGeneric" /\ funcs[calls[c].fn].stage = "tes"

\* the deferred output registers
DeferredRegisters ==
  <<m_clipDistance, m_cullDistance, m_viewportIndex, m_layer, m_primitiveId>>

\* C20 as stated: the return handling consumes the deferred output registers
\* and clears them, so when it is done they are empty.
C20_ClearedByScheduler ==
  AtReturnPoint => DeferredRegisters = <<Null, Null, Null, Null, Null>>

\* the values that an export instruction of function f carries come from the
\* calls of f
OwnValuesOnly(f) ==
  \A i \in DOMAIN body[f] :
    body[f][i].k = "exp" =>
      \A j \in 1..Len(body[f][i].src) : \A c \in CallsIn(body[f][i].src[j]) :
        calls[c].fn = f

\* C20: the return handling reads the deferred output registers and leaves
\* them as they are, but for gl_Layer, which it sets to the view index when
\* multi-view is on; they are emptied when the processing of the next function
\* starts, so no export of a function carries a value that was deferred in
\* another function.
C20_ClearedAtNextFunction ==
  /\ [](\A f \in DOMAIN body : OwnValuesOnly(f))
  /\ [](AtBegin => /\ m_clipDistance = Null /\ m_cullDistance = Null
                   /\ m_viewportIndex = Null /\ m_layer = Null
                   /\ m_primitiveId \in {Null, FunctionArgument(m_entryPoint, "primitiveId")})
  /\ [][(pc = "visit" /\ pc' = "markdone") =>
          /\ <<m_clipDistance, m_cullDistance, m_viewportIndex, m_primitiveId>>'
               = <<m_clipDistance, m_cullDistance, m_viewportIndex, m_primitiveId>>
          /\ m_layer' \in {m_layer, FunctionArgument(m_entryPoint, "viewIndex")}]_vars

\* the return handling of a helper function is done after an entry point of
\* the same stage has deferred gl_ClipDistance and exported it, with the value
\* still in the register when the handling of the entry point was done
C20_Witness ==
  /\ AtReturnPoint
  /\ ~funcs[m_entryPoint].entry
  /\ UseExpInst(m_shaderStage)
  /\ \E c \in Visited :
       /\ calls[c].bi = "ClipDistance"
       /\ calls[c].fn = EntryPointOf(m_shaderStage)
       /\ \E i \in DOMAIN body[calls[c].fn] :
            /\ body[calls[c].fn][i].what = "ClipCullDistance"
            /\ c \in CallsIn(body[calls[c].fn][i].src[1])
  /\ \E i \in DOMAIN body[m_entryPoint] : body[m_entryPoint][i].what = "ClipCullDistance"

-----------------------------------------------------------------------------
(* Properties of the calculation factors *)

\* the positions of the log at which a function of a tessellation stage was
\* begun
TessBegins ==
  {i \in 1..Len(log) : log[i][1] = "begin" /\ funcs[log[i][2]].stage \in {"tcs", "tes"}}

\* C18: the calculation factors are computed exactly once per pipeline: they
\* are uninitialized until the first function of the control or evaluation
\* shader is processed, that function computes them (under the test for the
\* uninitialized value), and every later function leaves each factor as it is.
C18_ComputedOnce ==
  /\ [](IF TessBegins = {} THEN calcFactor = NoCalcFactor
        ELSE /\ ~IsUninitialized(calcFactor)
             /\ calcFactor = ComputedCalcFactor(NoCalcFactor,
                                                funcs[log[Least(TessBegins)][2]].stage))
  /\ [][calcFactor' # calcFactor => (TessBegins = {} /\ IsUninitialized(calcFactor))]_vars

\* two entry points and a helper function of the tessellation stages have been
\* begun, and the last of them would have computed other factors than the first
C18_Witness ==
  /\ Cardinality(TessBegins) >= 3
  /\ funcs[m_entryPoint].stage = "tcs"
  /\ ~funcs[m_entryPoint].entry
  /\ calcFactor # NoCalcFactor
  /\ calcFactor # ComputedCalcFactor(NoCalcFactor, "tcs")

-----------------------------------------------------------------------------
(* Properties of the storage offsets *)

\* an invocation: the system values and function arguments that the offsets read
Invocation(relVertexId, relativeId, relPatchId, invocationId) ==
  [relVertexId |-> relVertexId, relativeId |-> relativeId, relPatchId |-> relPatchId,
   invocationId |-> invocationId, threadId |-> relativeId, gsVsOffset |-> 64 * relPatchId,
   emitCounter |-> invocationId, esGsOffset |-> 256 * relPatchId]

\* the patches of a thread group that the properties look at: the first two
\* and the last
PatchIds == {p \in {0, 1, calcFactor.patchCountPerThreadGroup - 1} : p >= 0}

\* the (bit width, component) pairs of a location: a 64-bit component is two
\* dwords, so that a location has two of them
WidthsAndComponents ==
  {wc \in {8, 16, 32, 64} \X (0..3) : wc[1] = 64 => wc[2] <= 1}

DwordsOf(bitWidth, offset) == IF bitWidth = 64 THEN {offset, offset + 1} ELSE {offset}

\* Offset(bitWidth, location, locOffset, compIdx, vertexIdx) is injective on the
\* keys (location + locOffset, compIdx, vertexIdx) with location + locOffset below
\* locCount and vertexIdx below vertexCount (no vertex index if vertexCount = 0):
\* the dwords of distinct keys of one width are disjoint, and the offset depends
\* on location + locOffset only
Injective(Offset(_, _, _, _, _), locCount, vertexCount, env) ==
  LET vertices == IF vertexCount = 0 THEN {Null}
                  ELSE {ConstInt(v) : v \in 0..(vertexCount - 1)}
      At1(bitWidth, loc, comp, vertexIdx) ==
        Eval(Offset(bitWidth, loc, Null, ConstInt(comp), vertexIdx), env)
  IN /\ \A bitWidth \in {8, 16, 32, 64} :
          LET comps == {wc[2] : wc \in {x \in WidthsAndComponents : x[1] = bitWidth}}
              keys == (0..(locCount - 1)) \X comps \X vertices
              dwords == UNION {DwordsOf(bitWidth, At1(bitWidth, k[1], k[2], k[3])) :
                                 k \in keys}
          IN Cardinality(dwords)
               = Cardinality(keys) * Cardinality(DwordsOf(bitWidth, 0))
     /\ \A loc \in 0..(locCount - 1), locOffset \in 1..(locCount - 1),
           wc \in {32, 64} \X {0, 1}, vertexIdx \in vertices :
          loc + locOffset < locCount =>
            Eval(Offset(wc[1], loc, ConstInt(locOffset), ConstInt(wc[2]), vertexIdx), env)
              = At1(wc[1], loc + locOffset, wc[2], vertexIdx)

\* the offsets of the vertices of one stream in the GS-VS ring are injective on
\* the keys (location, compIdx, vertexIdx) of the stream
RingInjective(streamId, env) ==
  LET keys == (0..(cfg.gs.outLocCount[streamId + 1] - 1)) \X (0..3)
                \X (0..(cfg.gs.outputVertices - 1))
      offsets == {Eval(calcGsVsRingOffsetForOutput(k[1], k[2], streamId, ConstInt(k[3]),
                                                   FunctionArgument(m_entryPoint,
                                                                    "gsVsOffset")),
                       env) : k \in keys}
  IN Cardinality(offsets) = Cardinality(keys)

\* C11: for a fixed stage, distinct (Location, Component, VertexIndex) keys within
\* the declared bounds (locations below the location count of the stage, vertex
\* indices below its vertex count, the components of the width) get pairwise
\* distinct, non-overlapping offsets from the storage-offset calculators, for
\* every patch of the thread group: the input, per-vertex output and per-patch
\* output offsets of the control shader, the input offsets of the evaluation
\* shader and the GS-VS ring offsets of each stream. The calculators get mapped
\* locations; the sharing of one slot by dynamically indexed elements is in the
\* location map.
C11_OffsetInjectivity ==
  (pc = "done" /\ rtPos = 0) =>
    /\ ~IsUninitialized(calcFactor) =>
         \A p \in PatchIds :
           LET env == Invocation(0, p, p, 0) IN
           /\ Injective(calcLdsOffsetForTcsInput, cfg.tess.inputMapLocCount,
                        cfg.tess.patchControlPoints, env)
           /\ Injective(calcLdsOffsetForTcsOutput, cfg.tess.outputMapLocCount,
                        cfg.tess.outputVertices, env)
           /\ Injective(calcLdsOffsetForTcsOutput, cfg.tess.perPatchOutputMapLocCount, 0, env)
           /\ Injective(calcLdsOffsetForTesInput, cfg.tess.outputMapLocCount,
                        cfg.tess.outputVertices, env)
           /\ Injective(calcLdsOffsetForTesInput, cfg.tess.perPatchOutputMapLocCount, 0, env)
    /\ "gs" \in cfg.stages =>
         \A streamId \in 0..3, p \in {0, 1} : RingInjective(streamId, Invocation(0, p, p, 0))

\* the instructions of the functions of a stage that access storage
Accesses(stage) ==
  {<<f, i>> \in UNION {{f} \X DOMAIN body[f] : f \in DOMAIN body} :
     funcs[f].stage = stage /\ body[f][i].addr.mem # "none"}

\* C11 witness: the pass has lowered a 64-bit access and a 32-bit input import
\* of the control shader to offsets that the calculators computed from the
\* calculation factors, and the two offsets differ.
C11_Witness ==
  /\ pc = "done"
  /\ ~IsUninitialized(calcFactor)
  /\ \E a \in Accesses("tcs"), b \in Accesses("tcs") :
       /\ calls[body[a[1]][a[2]].id].bits = 64
       /\ calls[body[b[1]][b[2]].id].bits = 32
       /\ calls[body[b[1]][b[2]].id].kind = "inGeneric"
       /\ Eval(body[a[1]][a[2]].addr.at[1], Invocation(0, 1, 1, 1))
            # Eval(body[b[1]][b[2]].addr.at[1], Invocation(0, 1, 1, 1))

-----------------------------------------------------------------------------
(* Properties of the LDS regions *)

\* the value of an operand of a call in an invocation; 'none' stands for an
\* operand that the call does not have
OperandIn(operand, env) ==
  IF operand[1] = "id" THEN env.invocationId ELSE operand[2]

\* the instructions of the vertex and tessellation shaders that access the LDS or
\* the off-chip LDS buffer
TessAccesses ==
  IF "tcs" \in cfg.stages THEN Accesses("vs") \cup Accesses("tcs") \cup Accesses("tes")
  ELSE {}

\* the invocations of a stage that the properties look at: the vertices of the
\* first two patches of a thread group, the output vertices of these patches,
\* the patches
InvocationsOf(stage) ==
  LET patches == {p \in {0, 1} : p < calcFactor.patchCountPerThreadGroup}
  IN CASE stage = "vs" ->
            {Invocation(p * cfg.tess.patchControlPoints + v, 0, 0, 0) :
               p \in patches, v \in 0..(cfg.tess.patchControlPoints - 1)}
       [] stage = "tcs" ->
            {Invocation(0, p, 0, v) : p \in patches, v \in 0..(cfg.tess.outputVertices - 1)}
       [] OTHER -> {Invocation(0, 0, p, 0) : p \in patches}

\* The datum that dword d of the access a = <<function, position>> holds in an
\* invocation, as the call gives it: an input of the control shader is the
\* dword (location, component) of a vertex of a patch, an output the dword of
\* an output vertex of a patch or, for a call without vertex index, of a patch.
\* The vertex shader writes the vertex relVertexId of the thread group; the
\* evaluation shader reads the outputs of the control shader.
Datum(a, d, env) ==
  LET item == body[a[1]][a[2]]
      call == calls[item.id]
      stage == funcs[a[1]].stage
      isBuiltIn == call.kind \in {"expBuiltIn", "inBuiltIn", "outImpBuiltIn"}
      location == IF call.bi \in TessLevels
                    THEN cfg.perPatchBuiltInOutLoc[BucketOf(call.bi)]
                  ELSE IF isBuiltIn THEN BuiltInOutLoc(call.bi)
                  ELSE call.loc + (IF call.locOffset[1] = "dyn" THEN call.locOffset[2] ELSE 0)
      elem == IF call.elem[1] = "none" THEN (IF isBuiltIn THEN 0 ELSE call.comp)
              ELSE OperandIn(call.elem, env)
      dword == location * 4 + elem * (IF call.bits = 64 THEN 2 ELSE 1)
                 + item.addr.first + (d - 1)
      patch == IF stage = "tes" THEN env.relPatchId ELSE env.relativeId
      vertex == OperandIn(call.vertex, env)
  IN CASE stage = "vs" -> <<"tcsInput", env.relVertexId, dword>>
       [] stage = "tcs" /\ call.kind \in {"inGeneric", "inBuiltIn"} ->
            <<"tcsInput", patch * cfg.tess.patchControlPoints + vertex, dword>>
       [] call.vertex[1] = "none" -> <<"patchConst", patch, dword>>
       [] OTHER -> <<"tcsOutput", patch * cfg.tess.outputVertices + vertex, dword>>

\* the memory and the offset in it that dword d of the access a addresses
SlotOf(a, d, env) ==
  <<body[a[1]][a[2]].addr.mem, Eval(body[a[1]][a[2]].addr.at[d], env)>>

\* the <<datum, slot>> pairs of all accesses in all invocations
Addressed ==
  UNION {{<<Datum(a, d, env), SlotOf(a, d, env)>> :
            d \in DOMAIN body[a[1]][a[2]].addr.at, env \in InvocationsOf(funcs[a[1]].stage)} :
         a \in TessAccesses}

\* C12: two invocations never address the same slot for distinct data: over any
\* two patches and vertices of a thread group and the in-bounds locations and
\* components of the calls, the slots that the vertex, control and evaluation
\* shaders address in the TCS-input, TCS-output and patch-constant regions hold
\* one datum each, within each region and across the regions.
C12_DisjointSlots ==
  (pc = "done" /\ rtPos = 0) =>
    \A x \in Addressed, y \in Addressed : x[1] # y[1] => x[2] # y[2]

-----------------------------------------------------------------------------
(* Properties of the marshalling *)

\* a dword that no store has written
Unwritten == <<-1, -1, -1, -1>>

\* the stores of the functions: <<function, position>> of the instructions that
\* store a value to the LDS, the off-chip LDS buffer or the ES-GS ring
ValueStores ==
  {<<f, i>> \in UNION {{f} \X DOMAIN body[f] : f \in DOMAIN body} :
     body[f][i].stored # <<>>}

\* the storage after the store 'item' in an invocation: dword i of the store at
\* the memory and offset of addr.at[i], a later dword over an earlier one
MemoryAfter(item, env) ==
  LET SlotAt(i) == <<item.addr.mem, Eval(item.addr.at[i], env)>>
      slots == {SlotAt(i) : i \in DOMAIN item.addr.at}
  IN [slot \in slots |->
        LET last == CHOOSE i \in DOMAIN item.addr.at :
                      /\ SlotAt(i) = slot
                      /\ \A j \in DOMAIN item.addr.at : SlotAt(j) = slot => j <= i
        IN item.stored[last]]

\* readValueFromLds(isOutput, readTy, ldsOffset) in a function of 'stage': the
\* dwords of the LDS from ldsOffset, or of the off-chip LDS buffer if
\* tessellation is off-chip and the control shader reads an output or the
\* evaluation shader an input
readValueFromLds(isOutput, stage, bitWidth, compCount, ldsOffset, memory, env) ==
  LET offChip == /\ cfg.tess.offChip
                 /\ (isOutput /\ stage = "tcs") \/ (~isOutput /\ stage = "tes")
      addr == LdsAddr(offChip, ldsOffset, NumChannels(bitWidth, compCount))
      loadValues == [i \in DOMAIN addr.at |->
                       LET slot == <<addr.mem, Eval(addr.at[i], env)>>
                       IN IF slot \in DOMAIN memory THEN memory[slot] ELSE Unwritten]
  IN ReadValue(bitWidth, compCount, loadValues)

\* the readers <<isOutput, stage>> of what a stage writes to the LDS: the
\* control shader reads the outputs of the vertex shader as inputs and its own
\* outputs, the evaluation shader reads the outputs of the control shader
LdsReaders(stage) ==
  IF stage = "vs" THEN {<<FALSE, "tcs">>} ELSE {<<TRUE, "tcs">>, <<FALSE, "tes">>}

\* the dwords of a vertex in the ES-GS ring after the store 'item', by location
\* * 4 + component
RingAfter(item, env) ==
  [k \in {Eval(item.base, env) + i - 1 : i \in DOMAIN item.stored} |->
     item.stored[k - Eval(item.base, env) + 1]]

\* the value read back from where the store 'item' has put its value
ReadBack(item, reader, env) ==
  IF item.k = "esGsRingStore"
    THEN loadValueFromEsGsRing(BitWidthOf(item.value), Len(item.value),
                               Eval(item.base, env) \div 4, Eval(item.base, env) % 4,
                               RingAfter(item, env))
    ELSE readValueFromLds(reader[1], reader[2], BitWidthOf(item.value), Len(item.value),
                          item.base, MemoryAfter(item, env), env)

MarshalInvocations == {Invocation(0, 0, 0, 0), Invocation(4, 1, 1, 1)}

\* C13: a value of 8-bit, 16-bit, 32-bit or 64-bit elements, of 1 to 4
\* components and of any bit pattern (NaN, all zero and all one among them),
\* that the marshalling layer stores to the LDS, the off-chip LDS buffer or the
\* ES-GS ring is the value the layer reads back with the type of the value from
\* the offset of the store, bit for bit, in each stage that reads it; the store
\* writes one dword per channel, each to its own offset; a 64-bit output on its
\* way to the ES-GS ring, stored as floats, is the output when cast back.
C13_RoundTrip ==
  (pc = "done" /\ rtPos = 0) =>
    \A a \in ValueStores, env \in MarshalInvocations :
      LET item == body[a[1]][a[2]]
          call == calls[item.id]
      IN /\ Len(item.stored) = Len(item.addr.at)
         /\ Cardinality(DOMAIN MemoryAfter(item, env)) = Len(item.stored)
         /\ \A reader \in LdsReaders(funcs[a[1]].stage) :
              ReadBack(item, reader, env) = item.value
         /\ (item.k = "esGsRingStore" /\ item.what = "generic") =>
              BitCastTo(ReadBack(item, <<FALSE, "gs">>, env), call.bits)
                = RuntimeValue(item.id, 0, call.bits, call.cnt)

\* C13 witness: the pass has lowered the store of a 64-bit output of 3
\* components that holds a NaN to the off-chip LDS buffer of a GFX6 target, in 6
\* dwords, and the control shader reads the output back as it was.
C13_Witness ==
  /\ pc = "done"
  /\ cfg.gfx = 6
  /\ \E a \in ValueStores :
       LET item == body[a[1]][a[2]] IN
       /\ item.addr.mem = "offChipLds"
       /\ BitWidthOf(item.value) = 64
       /\ Len(item.value) = 3
       /\ Len(item.stored) = 6
       /\ item.value[1] = PatternBytes("nan", 64)
       /\ item.value[2] # item.value[1]
       /\ ReadBack(item, <<TRUE, "tcs">>, Invocation(4, 1, 1, 1)) = item.value

-----------------------------------------------------------------------------
(* Specification of the routing: every kind of call in every stage and in a
   function of no stage, with locations that the location maps hold and
   locations that they do not hold *)

\* most calls of a module of the routing specification
MaxRouteCalls == 2

\* a generic call whose location is in no location map of the stage; 'loc' is
\* what a lookup that is not checked reads through the end iterator
Unmapped(call, loc) == [call EXCEPT !.mapped = FALSE, !.loc = loc]

\* generic imports and exports, found and not found
LookupCalls ==
  <<MkCall("inGeneric", "none"), Unmapped(MkCall("inGeneric", "none"), 1),
    MkCall("expGeneric", "none"), Unmapped(MkCall("expGeneric", "none"), 1)>>

RouteMenu ==
  [stage \in Stages \cup {"invalid"} |->
     LookupCalls \o
     CASE stage = "vs" ->
            <<MkCall("inBuiltIn", "VertexIndex"), MkCall("expBuiltIn", "Position"),
              MkCall("expBuiltIn", "FragDepth"), MkCall("expXfb", "none")>>
       [] stage = "tcs" ->
            <<MkCall("outImpGeneric", "none"), Unmapped(MkCall("outImpGeneric", "none"), 1),
              MkCall("outImpBuiltIn", "TessLevelOuter"),
              [MkCall("expBuiltIn", "TessLevelOuter") EXCEPT !.elem = <<"const", 0>>],
              MkCall("expXfb", "none")>>
       [] stage = "tes" ->
            <<MkCall("inBuiltIn", "TessCoord"), MkCall("expBuiltIn", "Position"),
              MkCall("expXfb", "none")>>
       [] stage = "gs" ->
            <<MkCall("expBuiltIn", "Position"), MkCall("expXfb", "none"),
              MkCall("sendmsg", "emit")>>
       [] stage = "fs" ->
            <<MkCall("inInterp", "none"), Unmapped(MkCall("inInterp", "none"), 1),
              MkCall("inBuiltIn", "FragCoord"), MkCall("expBuiltIn", "FragDepth"),
              MkCall("expXfb", "none")>>
       [] stage = "copy" ->
            <<MkCall("expBuiltIn", "Position"), MkCall("expBuiltIn", "FragDepth"),
              MkCall("expXfb", "none")>>
       [] OTHER ->
            <<MkCall("inBuiltIn", "VertexIndex"), MkCall("expBuiltIn", "Position"),
              MkCall("expXfb", "none")>>]

InitRoute ==
  \E m \in DriverModules :
    LET options == OptionsOf(m.fns, RouteMenu, 1) IN
    \E chosen \in SubsetsUpTo(1..Len(options), MaxRouteCalls) :
      InitModule(Pipeline(m.stages), m.fns, ChosenCalls(options, chosen))

SpecRoute == InitRoute /\ [][Next]_vars

-----------------------------------------------------------------------------
(* Properties of the routing *)

\* the next step visits call c
Visiting(c) ==
  /\ pc = "visit"
  /\ Pending(m_entryPoint) # <<>>
  /\ c = Pending(m_entryPoint)[1]

\* the lowering of call c looks its location up in the location maps of the
\* stage, and the location is in none of them
LocationMiss(c) ==
  /\ ~calls[c].mapped
  /\ \/ calls[c].kind \in {"inGeneric", "inInterp"} /\ m_shaderStage # "vs"
     \/ calls[c].kind = "outImpGeneric"
     \/ calls[c].kind = "expGeneric" /\ m_shaderStage # "copy"

\* the instructions generated for call c in the body b
GeneratedFor(b, c) == {i \in 1..Len(b) : b[i].id = c /\ b[i].k # "call"}

\* C21 as stated: the lowering of an import or export whose location is in no
\* location map always ends in a fatal failure.
C21_MissIsFatal ==
  [][\A c \in 1..Len(calls) : (Visiting(c) /\ LocationMiss(c)) => pc' = "abort"]_vars

\* C21: a generic output export whose location is in no location map of its
\* stage is dropped: nothing fails, no instruction is generated, the call is put
\* on the list of the export calls and the pass goes on.  A generic input,
\* interpolant or output import whose location is not found fails an assertion;
\* a build without assertions goes on, and an import of a stage that has a
\* lowering of generic imports is lowered all the same, in the evaluation shader
\* and for an output import from location 0.
C21_MissAssertsOrDrops ==
  [][\A c \in 1..Len(calls) :
       (Visiting(c) /\ LocationMiss(c)) =>
         LET st == visitCallInst(Visit0, c)
             after == body'[m_entryPoint]
         IN IF calls[c].kind = "expGeneric"
              THEN /\ ~st.asserted /\ ~st.unreachable
                   /\ pc' = "visit"
                   /\ after = body[m_entryPoint]
                   /\ m_exportCalls' = Append(m_exportCalls, c)
              ELSE /\ st.asserted
                   /\ pc' \in {"abort", "visit"}
                   /\ m_importCalls' = Append(m_importCalls, c)
                   /\ (m_shaderStage \in {"tcs", "tes", "gs", "fs"}) =>
                        /\ Cardinality(GeneratedFor(after, c)) = 1
                        /\ \A i \in GeneratedFor(after, c) :
                             /\ after[i].k = "import"
                             /\ PerPatchFallback(c) => after[i].addr = ImportAddrAt(c, 0)]_vars

\* C21 witness: the evaluation shader has an input import and an output export
\* whose locations are not found; the import is lowered to a read of location 0,
\* the export is on the list of the export calls with nothing generated for it,
\* and the pass goes on.
C21_Witness ==
  /\ pc = "visit"
  /\ m_shaderStage = "tes"
  /\ \E c1, c2 \in 1..Len(calls) :
       /\ calls[c1].kind = "inGeneric" /\ ~calls[c1].mapped /\ calls[c1].loc # 0
       /\ \E i \in GeneratedFor(body[m_entryPoint], c1) :
            /\ body[m_entryPoint][i].addr = ImportAddrAt(c1, 0)
            /\ body[m_entryPoint][i].addr # ImportAddrAt(c1, calls[c1].loc)
       /\ calls[c2].kind = "expGeneric" /\ ~calls[c2].mapped
       /\ calls[c2].fn = m_entryPoint
       /\ c2 \in SeqToSet(m_exportCalls)
       /\ GeneratedFor(body[m_entryPoint], c2) = {}

\* the stages for which visitCallInst has a lowering of a kind of call
RoutedStages(kind) ==
  CASE kind = "inBuiltIn" -> {"vs", "tcs", "tes", "gs", "fs"}
    [] kind \in {"inGeneric", "inInterp"} -> {"tcs", "tes", "gs", "fs"}
    [] kind \in {"outImpGeneric", "outImpBuiltIn"} -> {"tcs"}
    [] kind = "expXfb" -> {"vs", "tes", "gs", "copy"}
    [] kind = "expBuiltIn" -> {"vs", "tcs", "tes", "gs", "fs", "copy"}
    [] kind = "expGeneric" -> {"vs", "tcs", "tes", "gs", "copy"}
    [] OTHER -> Stages \cup {"invalid"}

\* the built-in outputs that the vertex shader and the copy shader have a
\* lowering for
VsBuiltInOutputs ==
  {"Position", "PointSize", "ClipDistance", "CullDistance", "Layer", "ViewportIndex",
   "PrimitiveShadingRate"}

CopyShaderBuiltInOutputs == VsBuiltInOutputs \cup {"PrimitiveId"}

\* no entry of the routing matches call c in the stage being processed
Unmatched(c) ==
  \/ m_shaderStage \notin RoutedStages(calls[c].kind)
  \/ /\ calls[c].kind = "expBuiltIn"
     /\ \/ m_shaderStage = "vs" /\ calls[c].bi \notin VsBuiltInOutputs
        \/ m_shaderStage = "copy" /\ calls[c].bi \notin CopyShaderBuiltInOutputs

\* C22: the visit of an abstract call that no entry of the routing matches, by
\* its stage and kind or by its stage and built-in, fails an assert or reaches
\* an llvm_unreachable; it is never passed over without a failure.
C22_UnmatchedIsFatal ==
  \A c \in 1..Len(calls) :
    (Visiting(c) /\ Unmatched(c)) =>
      LET st == visitCallInst(Visit0, c) IN st.unreachable \/ st.asserted

\* the unmatched calls other than a generic output export whose location is not
\* found fail
UnmatchedAndFoundIsFatal ==
  \A c \in 1..Len(calls) :
    (Visiting(c) /\ Unmatched(c) /\ ~(calls[c].kind = "expGeneric" /\ ~calls[c].mapped)) =>
      LET st == visitCallInst(Visit0, c) IN st.unreachable \/ st.asserted

-----------------------------------------------------------------------------
(* Specification of the resource usage: the builder creates the writes of the
   built-in outputs and marks their usage, then the pass lowers them *)

\* most built-in output writes of a module of the usage specification
MaxUsageCalls == 3

\* the built-in usage of a stage before the builder has marked anything
NoUsage ==
  [position |-> FALSE, pointSize |-> FALSE, clipDistance |-> 0, cullDistance |-> 0,
   layer |-> FALSE, viewportIndex |-> FALSE, primitiveId |-> FALSE,
   primitiveShadingRate |-> FALSE]

\* the built-in outputs that markBuiltInOutputUsage has a case for in a stage
MarkedOutputs(stage) ==
  CASE stage = "vs" -> {"PointSize", "Position", "ClipDistance", "CullDistance",
                        "ViewportIndex", "Layer", "PrimitiveShadingRate"}
    [] stage = "tcs" -> {"PointSize", "Position", "ClipDistance", "CullDistance"}
    [] stage = "tes" -> {"PointSize", "Position", "ClipDistance", "CullDistance",
                         "ViewportIndex", "Layer"}
    [] stage = "gs" -> {"PointSize", "Position", "ClipDistance", "CullDistance",
                        "PrimitiveId", "ViewportIndex", "Layer", "PrimitiveShadingRate"}
    [] OTHER -> {}

\* markBuiltInOutputUsage that records the array size of the last call
markBuiltInOutputUsageLast(u, stage, builtIn, arraySize) ==
  IF builtIn \notin MarkedOutputs(stage) THEN u
  ELSE CASE builtIn = "PointSize" -> [u EXCEPT !.pointSize = TRUE]
         [] builtIn = "Position" -> [u EXCEPT !.position = TRUE]
         [] builtIn = "ClipDistance" -> [u EXCEPT !.clipDistance = arraySize]
         [] builtIn = "CullDistance" -> [u EXCEPT !.cullDistance = arraySize]
         [] builtIn = "ViewportIndex" -> [u EXCEPT !.viewportIndex = TRUE]
         [] builtIn = "Layer" -> [u EXCEPT !.layer = TRUE]
         [] builtIn = "PrimitiveId" -> [u EXCEPT !.primitiveId = TRUE]
         [] builtIn = "PrimitiveShadingRate" -> [u EXCEPT !.primitiveShadingRate = TRUE]

\* InOutBuilder::markBuiltInOutputUsage: the built-in usage u of the stage after
\* the call
markBuiltInOutputUsage(u, stage, builtIn, arraySize) ==
  IF builtIn \notin MarkedOutputs(stage) THEN u
  ELSE CASE builtIn = "PointSize" -> [u EXCEPT !.pointSize = TRUE]
         [] builtIn = "Position" -> [u EXCEPT !.position = TRUE]
         [] builtIn = "ClipDistance" -> [u EXCEPT !.clipDistance = Max(@, arraySize)]
         [] builtIn = "CullDistance" -> [u EXCEPT !.cullDistance = Max(@, arraySize)]
         [] builtIn = "ViewportIndex" -> [u EXCEPT !.viewportIndex = TRUE]
         [] builtIn = "Layer" -> [u EXCEPT !.layer = TRUE]
         [] builtIn = "PrimitiveId" -> [u EXCEPT !.primitiveId = TRUE]
         [] builtIn = "PrimitiveShadingRate" -> [u EXCEPT !.primitiveShadingRate = TRUE]

\* the array size CreateWriteBuiltInOutput marks for the write c: the size of
\* the output, or for a write of one element the constant index plus one
ArraySizeOf(cs, c) ==
  IF cs[c].elem[1] = "const" THEN cs[c].elem[2] + 1 ELSE cs[c].cnt

\* InOutBuilder::CreateWriteBuiltInOutput for the next write of the module: the
\* usage is marked and the call of lgc.output.export.builtin is put at the end
\* of its function
CreateWriteBuiltInOutput ==
  /\ pc = "build"
  /\ LET c == Len(log) + 1
         f == calls[c].fn
         stage == funcs[f].stage
     IN /\ calls[c].kind = "expBuiltIn"
        /\ usage' = [usage EXCEPT ![stage] =
                       markBuiltInOutputUsage(@, stage, calls[c].bi, ArraySizeOf(calls, c))]
        /\ body' = [body EXCEPT ![f] =
                      InsertBefore(@, Len(@),
                                   <<Inst("call", calls[c].kind, c, NoSrc)>>)]
        /\ pc' = IF c = Len(calls) THEN "entry" ELSE "build"
        /\ log' = Append(log, <<"build", c>>)
  /\ UNCHANGED <<cfg, expCount, calcFactor, calls, funcs, stageIdx, fnIdx, m_entryPoint,
                 m_shaderStage, m_importCalls, m_exportCalls, m_clipDistance,
                 m_cullDistance, m_primitiveId, m_viewportIndex, m_layer,
                 m_attribExports, m_expLocs, m_tessLevelOuterInsts,
                 m_tessLevelInnerInsts, tfBuffer, rtPos>>

Distance(builtInId, cnt, undef) ==
  [MkCall("expBuiltIn", builtInId) EXCEPT !.cnt = cnt, !.undef = undef]

\* writes of gl_ClipDistance and gl_CullDistance of several sizes, some of a
\* value that is undefined; in the control shader writes of one element
UsageMenu ==
  [stage \in {"vs", "tcs", "tes"} |->
     CASE stage = "vs" ->
            <<MkCall("expBuiltIn", "Position"),
              Distance("ClipDistance", 2, FALSE), Distance("ClipDistance", 1, FALSE),
              Distance("ClipDistance", 3, TRUE), Distance("CullDistance", 1, FALSE),
              Distance("CullDistance", 2, TRUE)>>
       [] stage = "tcs" ->
            <<[MkCall("expBuiltIn", "TessLevelOuter") EXCEPT !.elem = <<"const", 0>>],
              [MkCall("expBuiltIn", "ClipDistance") EXCEPT !.elem = <<"const", 1>>,
                                                           !.vertex = <<"const", 0>>],
              [MkCall("expBuiltIn", "ClipDistance") EXCEPT !.elem = <<"const", 0>>,
                                                           !.vertex = <<"const", 0>>]>>
       [] stage = "tes" ->
            <<Distance("ClipDistance", 2, FALSE), Distance("ClipDistance", 1, TRUE),
              Distance("CullDistance", 1, FALSE)>>]

UsageModules ==
  { [stages |-> {"vs", "fs"},
     fns |-> <<Function("vs", TRUE), Function("fs", TRUE), Function("vs", FALSE)>>],
    [stages |-> {"vs", "tcs", "tes", "fs"},
     fns |-> <<Function("vs", TRUE), Function("tcs", TRUE), Function("tes", TRUE),
               Function("fs", TRUE)>>] }

\* the state in which the builder starts: no usage marked, no call created
InitBuilder(c, fns, cs) ==
  /\ cfg = c
  /\ funcs = fns
  /\ calls = cs
  /\ usage = [stage \in Stages \cup {"invalid"} |-> NoUsage]
  /\ expCount = [stage \in Stages \cup {"invalid"} |-> 0]
  /\ calcFactor = NoCalcFactor
  /\ body = [f \in 1..Len(fns) |->
               IF fns[f].decl THEN <<>> ELSE <<InBlock("ret", Inst("ret", "", 0, NoSrc))>>]
  /\ pc = IF cs = <<>> THEN "entry" ELSE "build"
  /\ stageIdx = 0
  /\ fnIdx = 0
  /\ m_entryPoint = 0
  /\ m_shaderStage = "invalid"
  /\ m_importCalls = <<>>
  /\ m_exportCalls = <<>>
  /\ m_clipDistance = Null
  /\ m_cullDistance = Null
  /\ m_primitiveId = Null
  /\ m_viewportIndex = Null
  /\ m_layer = Null
  /\ m_attribExports = NoAttribs
  /\ m_expLocs = {}
  /\ m_tessLevelOuterInsts = <<>>
  /\ m_tessLevelInnerInsts = <<>>
  /\ log = <<>>
  /\ tfBuffer = [a \in {} |-> Null]
  /\ rtPos = 0

InitUsage ==
  \E m \in UsageModules, fs \in FsUsages :
    LET options == OptionsOf(m.fns, UsageMenu, 1) IN
    \E chosen \in SubsetsUpTo(1..Len(options), MaxUsageCalls) :
      InitBuilder([Pipeline(m.stages) EXCEPT !.fs = fs], m.fns,
                  ChosenCalls(options, chosen))

NextUsage ==
  \/ CreateWriteBuiltInOutput
  \/ ProcessEntryPoint
  \/ VisitCallInst
  \/ VisitReturnInsts
  \/ MarkExportDone
  \/ StoreTessFactors
  \/ ProcessNonEntryPoint
  \/ EraseCalls
  \/ TfBufferStore

SpecUsage == InitUsage /\ [][NextUsage]_vars

-----------------------------------------------------------------------------
(* Properties of the resource usage *)

DistanceFields == {"clipDistance", "cullDistance"}
DistanceOf(field) == IF field = "clipDistance" THEN "ClipDistance" ELSE "CullDistance"

\* the writes of a built-in output in the functions of a stage that the builder
\* has created in the history h
BuiltWrites(h, stage, builtInId) ==
  {c \in 1..Len(calls) : /\ \E i \in 1..Len(h) : h[i] = <<"build", c>>
                         /\ funcs[calls[c].fn].stage = stage
                         /\ calls[c].bi = builtInId}

\* the largest array size requested so far, 0 if none
MaxRequested(h, stage, builtInId) ==
  LET sizes == {ArraySizeOf(calls, c) : c \in BuiltWrites(h, stage, builtInId)}
  IN IF sizes = {} THEN 0 ELSE CHOOSE n \in sizes : \A k \in sizes : k <= n

\* C23 as stated: after every step of the usage marking and of the lowering the
\* recorded array size of gl_ClipDistance and of gl_CullDistance of a stage is
\* the maximum of the sizes requested so far, and it is not below what it was.
C23_MaxAndNeverDecreases ==
  [][\A stage \in Stages, field \in DistanceFields :
       /\ usage'[stage][field] = MaxRequested(log', stage, DistanceOf(field))
       /\ usage'[stage][field] >= usage[stage][field]]_vars

\* C23: while the builder marks the usage, the recorded array size of
\* gl_ClipDistance and of gl_CullDistance of a stage is the maximum of the sizes
\* requested so far and never decreases.  The lowering keeps the size, but for
\* one case: the lowering of a write of an undefined value in the vertex shader
\* or the evaluation shader sets the recorded size of that stage from non-zero
\* to 0.
C23_MaxUntilUndefWrite ==
  [][\A stage \in Stages, field \in DistanceFields :
       /\ pc = "build" =>
            /\ usage'[stage][field] = MaxRequested(log', stage, DistanceOf(field))
            /\ usage'[stage][field] >= usage[stage][field]
       /\ (pc # "build" /\ usage'[stage][field] # usage[stage][field]) =>
            /\ usage'[stage][field] = 0
            /\ stage = m_shaderStage
            /\ stage \in {"vs", "tes"}
            /\ \E c \in 1..Len(calls) :
                 /\ Visiting(c)
                 /\ calls[c].kind = "expBuiltIn"
                 /\ calls[c].bi = DistanceOf(field)
                 /\ calls[c].undef
       /\ \A c \in 1..Len(calls) :
            (/\ Visiting(c)
             /\ stage = m_shaderStage
             /\ stage \in {"vs", "tes"}
             /\ calls[c].kind = "expBuiltIn"
             /\ calls[c].bi = DistanceOf(field)
             /\ calls[c].undef) => usage'[stage][field] = 0]_vars

\* C23 witness: the builder has marked gl_ClipDistance of the evaluation
\* shader with the sizes 2 and then 1, the second for a write of an undefined
\* value, and gl_CullDistance with the size 1; the pass has lowered the writes,
\* and the recorded size of gl_ClipDistance is 0, below the requested 2, while
\* that of gl_CullDistance is the requested 1.
C23_Witness ==
  /\ pc = "done"
  /\ \E c, d \in BuiltWrites(log, "tes", "ClipDistance") :
       /\ c < d
       /\ ArraySizeOf(calls, c) = 2 /\ ~calls[c].undef
       /\ ArraySizeOf(calls, d) = 1 /\ calls[d].undef
  /\ MaxRequested(log, "tes", "ClipDistance") = 2
  /\ usage["tes"].clipDistance = 0
  /\ MaxRequested(log, "tes", "CullDistance") = 1
  /\ usage["tes"].cullDistance = 1

-----------------------------------------------------------------------------
(* Specification of the barycentric coordinates: the fragment shader reads
   gl_BaryCoord under every primitive type *)

\* most calls of a module of the barycentric specification
MaxBaryCalls == 2

\* the primitive types of the pipeline: those with a case, and a patch
PrimitiveTypes == BaryCoordPrimitiveTypes \cup {"Patch"}

BaryMenu ==
  [stage \in DOMAIN DriverMenu |->
     IF stage = "fs"
       THEN <<MkCall("inBuiltIn", "BaryCoord"), MkCall("inBuiltIn", "BaryCoordNoPerspKHR"),
              MkCall("inBuiltIn", "FragCoord"), MkCall("expBuiltIn", "FragDepth")>>
       ELSE DriverMenu[stage]]

InitBary ==
  \E m \in DriverModules, primType \in PrimitiveTypes :
    LET options == OptionsOf(m.fns, BaryMenu, 1) IN
    \E chosen \in SubsetsUpTo(1..Len(options), MaxBaryCalls) :
      InitModule([Pipeline(m.stages) EXCEPT !.primType = primType], m.fns,
                 ChosenCalls(options, chosen))

SpecBary == InitBary /\ [][Next]_vars

-----------------------------------------------------------------------------
(* Properties of the barycentric coordinates *)

\* the floats 0.3 (0x3E99999A: 10066330 * 2^-25), 0.2 (0x3E4CCCCD:
\* 13421773 * 2^-26) and 0.5 in units of 2^-26
Float03 == 10066330 * 2 ^ 1
Float02 == 13421773 * 2 ^ 0
Float05 == FloatOne \div 2

\* the scenario: the hardware gives I, J = (0.3, 0.2) for both interpolations
ScenarioIJ ==
  [perspInterpCenter |-> <<Float03, Float02>>, linearInterpCenter |-> <<Float03, Float02>>,
   primitiveId |-> 0]

\* the imports of gl_BaryCoord that the pass has lowered: function and position
BaryImports ==
  {a \in UNION {{f} \X (1..Len(body[f])) : f \in 1..Len(funcs)} :
     /\ body[a[1]][a[2]].k = "import"
     /\ calls[body[a[1]][a[2]].id].kind = "inBuiltIn"
     /\ calls[body[a[1]][a[2]].id].bi \in BaryCoords
     /\ funcs[a[1]].stage = "fs"}

\* C24: for a triangle list the lowered import of gl_BaryCoord has the
\* components (J, K, I): I goes to component 2, J to component 0 and
\* K = (1 - I) - J to component 1; with I, J = (0.3, 0.2) from the hardware it
\* is (0.2, 0.5, 0.3).
C24_TriangleListWeights ==
  cfg.primType = "Triangle_List" =>
    \A a \in BaryImports :
      LET input == body[a[1]][a[2]].src
          idx == IF calls[body[a[1]][a[2]].id].bi = "BaryCoord"
                   THEN "perspInterpCenter" ELSE "linearInterpCenter"
          iJCoord == FunctionArgument(a[1], idx)
      IN /\ Len(input) = 3
         /\ input[3] = Extract(iJCoord, 0)
         /\ input[1] = Extract(iJCoord, 1)
         /\ input[2] = FSub(FSub(ConstFP(1), Extract(iJCoord, 0)), Extract(iJCoord, 1))
         /\ [n \in 1..3 |-> EvalFloat(input[n], ScenarioIJ)] = <<Float02, Float05, Float03>>

\* C24 witness: the pass has lowered an import of gl_BaryCoord of a fragment
\* shader of a triangle-list pipeline, and the second component of the result
\* is 0.5 in the scenario.
C24_Witness ==
  /\ cfg.primType = "Triangle_List"
  /\ pc = "done"
  /\ \E a \in BaryImports :
       /\ calls[body[a[1]][a[2]].id].bi = "BaryCoord"
       /\ EvalFloat(body[a[1]][a[2]].src[2], ScenarioIJ) = Float05
       /\ EvalFloat(body[a[1]][a[2]].src[1], ScenarioIJ) = Float02

-----------------------------------------------------------------------------
(* Properties of the erasure *)

\* the abstract calls that a body holds
CallsInBody(b) == {b[i].id : i \in {j \in 1..Len(b) : b[j].k = "call"}}

\* the abstract calls that the functions hold in the bodies bs
PresentCalls(bs) == UNION {CallsInBody(bs[f]) : f \in DOMAIN bs}

\* the worklist: the import calls and the export calls to erase
Worklist(imports, exports) == imports \o exports

NoDuplicates(s) == \A i, j \in 1..Len(s) : s[i] = s[j] => i = j

\* the instructions other than abstract calls and terminators of the bodies bs
GeneratedCount(bs) ==
  SumSeq([f \in 1..Len(bs) |->
            Cardinality({i \in 1..Len(bs[f]) :
                           bs[f][i].k # "call" /\ ~IsTerminator(bs[f][i])})])

\* every function that processFunction is called for has been processed, and
\* storeTessFactors has run if the control shader has an entry point
LoweringFinished(h) ==
  /\ \A f \in 1..Len(funcs) :
       IsProcessed(f) => \E i \in 1..Len(h) : h[i] = <<"done", f>>
  /\ EntryPointOf("tcs") # 0 => \E i \in 1..Len(h) : h[i][1] = "tf"

\* C25: an abstract call leaves its function only in the one step at the end of
\* runImpl, after every function has been processed and storeTessFactors has
\* run; until then every visited import and export call is on the worklist and
\* still in its function, so that it can be an insert position; the worklist
\* holds no call twice; and after the erasure no instruction is generated any
\* more.
C25_ErasedAtTheEnd ==
  [][/\ PresentCalls(body') # PresentCalls(body) =>
          /\ pc' = "done"
          /\ LoweringFinished(log)
          /\ PresentCalls(body) \ PresentCalls(body')
               = SeqToSet(Worklist(m_importCalls, m_exportCalls))
     /\ NoDuplicates(Worklist(m_importCalls', m_exportCalls'))
     /\ SeqToSet(Worklist(m_importCalls', m_exportCalls')) \subseteq PresentCalls(body')
     /\ \A c \in Visited' :
          (IsAbstractOp(c) /\ pc' # "done") =>
            c \in SeqToSet(Worklist(m_importCalls', m_exportCalls'))
     /\ GeneratedCount(body') # GeneratedCount(body) => pc # "done" /\ pc' # "done"]_vars

\* C25 witness: the pass has finished on a module with a control shader; an
\* import and the tessellation-level write that the finalizer has used as the
\* insert position of its store have been visited and are erased, the store is
\* in the function.
C25_Witness ==
  /\ pc = "done"
  /\ m_importCalls = <<>> /\ m_exportCalls = <<>>
  /\ PresentCalls(body) \cap {c \in 1..Len(calls) : IsAbstractOp(c)} = {}
  /\ \E c, d \in Visited :
       /\ calls[c].kind \in {"inGeneric", "outImpGeneric", "outImpBuiltIn"}
       /\ calls[d].kind = "expBuiltIn" /\ calls[d].bi = "TessLevelOuter"
       /\ \E i \in 1..Len(body[calls[d].fn]) :
            body[calls[d].fn][i].k = "tfStore" /\ body[calls[d].fn][i].id = d

-----------------------------------------------------------------------------
(* Properties of the order of the stages *)

\* the accesses to the LDS and the off-chip LDS buffer among the instructions
\* 'at' of the body b: their offsets come from calcLdsOffsetForVsOutput,
\* calcLdsOffsetForTcsInput, calcLdsOffsetForTcsOutput and
\* calcLdsOffsetForTesInput, which read the calculation factors
FactorReads(b, at) == {i \in at : b[i].addr.mem \in {"lds", "offChipLds"}}

\* every calculation factor has a value; the off-chip region starts are read
\* (and set) with off-chip tessellation only
AllFactorsComputed ==
  /\ \A field \in {"inVertexStride", "outVertexStride", "patchCountPerThreadGroup",
                   "outPatchSize", "inPatchSize", "patchConstSize", "tessFactorStride"} :
       calcFactor[field] # InvalidValue
  /\ calcFactor.onChip.outPatchStart # InvalidValue
  /\ calcFactor.onChip.patchConstStart # InvalidValue
  /\ cfg.tess.offChip => /\ calcFactor.offChip.outPatchStart # InvalidValue
                         /\ calcFactor.offChip.patchConstStart # InvalidValue

\* the step lowers a call of a vertex or tessellation shader of a tessellation
\* pipeline, or finalizes the tessellation levels, to an access whose offset
\* reads the calculation factors
ReadsFactors ==
  /\ m_hasTs
  /\ m_shaderStage \in {"vs", "tcs", "tes"}
  /\ Len(log') = Len(log) + 1
  /\ LET event == log'[Len(log')]
         after == body'[m_entryPoint]
     IN \/ /\ event[1] = "call"
           /\ FactorReads(after, GeneratedFor(after, event[2])) # {}
        \/ /\ event[1] = "tf"
           /\ \E i \in DOMAIN after : after[i].k = "ldsWrite"

\* C26: whenever the lowering of a stage reads a calculation factor - the
\* vertex shader the stride of an input vertex, the control and evaluation
\* shaders the strides, patch sizes and region starts, the finalizer of the
\* tessellation levels the region of the patch constants - the factors have
\* been computed before by processShader of a tessellation stage: the entry
\* points are processed in reverse pipeline order, the evaluation and control
\* shaders before the vertex shader, and the other functions after them.
C26_ComputedBeforeRead ==
  [][ReadsFactors =>
       /\ TessBegins # {}
       /\ AllFactorsComputed
       /\ calcFactor = ComputedCalcFactor(NoCalcFactor,
                                          funcs[log[Least(TessBegins)][2]].stage)]_vars

\* C26 witness: the pass has lowered an output of the vertex shader, an access
\* of the control shader and an input of the evaluation shader to accesses of
\* the LDS or the off-chip LDS buffer; the offset of the vertex shader's access
\* holds the computed stride of an input vertex.
C26_Witness ==
  /\ pc = "done"
  /\ AllFactorsComputed
  /\ Accesses("tcs") # {}
  /\ Accesses("tes") # {}
  /\ \E a \in Accesses("vs") :
       /\ body[a[1]][a[2]].addr.mem = "lds"
       /\ body[a[1]][a[2]].addr.at[1][2][2][3] = ConstInt(calcFactor.inVertexStride)

-----------------------------------------------------------------------------
(* Specification of the call-sites of the tessellation levels: a control
   shader that writes a tessellation level at several call-sites, each the
   whole array or one element *)

\* most tessellation-level write call-sites of the control shader
MaxTessSites == 3

\* the writes of a tessellation level that a call-site can be: the whole array
\* (float[4] outer, float[2] inner), or an element of it
SiteMenu(builtInId) ==
  {[MkCall("expBuiltIn", builtInId) EXCEPT
      !.fn = 1, !.arr = TRUE, !.cnt = IF builtInId = "TessLevelOuter" THEN 4 ELSE 2]}
    \cup {[MkCall("expBuiltIn", builtInId) EXCEPT !.fn = 1, !.elem = elem] :
            elem \in {<<"const", 0>>, <<"const", 1>>, <<"dyn", 3>>}}

\* the sequences of at most n elements of S
RECURSIVE SeqsUpTo(_, _)
SeqsUpTo(S, n) ==
  IF n = 0 THEN {<<>>}
  ELSE LET shorter == SeqsUpTo(S, n - 1)
       IN shorter \cup {Append(x, e) : x \in shorter, e \in S}

InitSites ==
  \E primMode \in {"tri", "quad", "iso"}, lds \in BOOLEAN :
    \E outer \in SeqsUpTo(SiteMenu("TessLevelOuter"), MaxTessSites),
       inner \in SeqsUpTo(SiteMenu("TessLevelInner"), MaxTessSites) :
      /\ Len(outer) + Len(inner) <= MaxTessSites
      /\ InitModule([Pipeline({"vs", "tcs", "tes", "fs"}) EXCEPT
                       !.primMode = primMode, !.tfLds = <<lds, lds>>],
                    <<Function("tcs", TRUE), Function("tcs", FALSE), Declaration>>,
                    outer \o inner)

SpecSites == InitSites /\ [][Next]_vars

-----------------------------------------------------------------------------
(* Properties of the value of a tessellation-factor buffer store *)

\* C27 as stated: the value handed to the tessellation-factor buffer store has
\* between 1 and 4 components (f32, v2f32, v3f32 or v4f32), for any number of
\* tessellation-level write call-sites in the control shader.
C27_OneToFourComponents ==
  \A i \in 1..Len(TfStoreCalls) : Len(TfStoreCalls[i].src) \in BufferFormats

\* the value of a store has 1 to 4 components as long as no bucket is written
\* as a whole array at a call-site that is followed by another call-site of the
\* bucket
OneToFourWithOneArraySite ==
  (\A bucket \in {"outer", "inner"} :
     WrittenAsArray(bucket) => Cardinality(BucketCalls(bucket)) = 1)
    => C27_OneToFourComponents

-----------------------------------------------------------------------------
(* Properties of the ranges of the tessellation factors *)

\* the range of a bucket (0 outer, 1 inner) in the factors of a patch: the
\* dwords from tessFactorStart on, tessFactorCount of them
FactorRange(i) ==
  LET start == calcTessFactorOffset(i = 0, <<"none", 0>>)
  IN {start + k : k \in 0..(expTessFactorCount(i) - 1)}

\* the dwords of the buffer that a patch writes with the stores of the control
\* shader
PatchWrites(relPatchId) ==
  UNION {DOMAIN createTessBufferStoreFunction(<<>>, relPatchId, tessFactorStride,
                                              TfStoreCalls[k].tgt[2], TfStoreCalls[k].src) :
           k \in 1..Len(TfStoreCalls)}

\* the ranges of the two buckets are disjoint and inside the stride of a patch,
\* and calcTessFactorOffset gives an element of a bucket a dword of the range
\* of its bucket, or InvalidValue
RangesInsideStride ==
  /\ FactorRange(0) \cap FactorRange(1) = {}
  /\ \A i \in {0, 1} :
       /\ FactorRange(i) \subseteq 0..(tessFactorStride - 1)
       /\ calcTessFactorOffset(i = 0, <<"none", 0>>) + expTessFactorCount(i) <= tessFactorStride
       /\ \A k \in 0..MaxElemIdx, kind \in {"const", "dyn"} :
            calcTessFactorOffset(i = 0, <<kind, k>>) \in FactorRange(i) \cup {InvalidValue}

\* C28 as stated: for every topology, the outer and inner tessellation-factor
\* ranges of one patch are disjoint and both lie inside the per-patch stride
\* (start + count <= tessFactorStride), so that the factor writes of different
\* patches never overlap in the tessellation-factor buffer.
C28_PatchesNeverOverlap ==
  /\ RangesInsideStride
  /\ pc = "done" =>
       \A p, q \in 0..MaxPatch : p # q => PatchWrites(p) \cap PatchWrites(q) = {}

\* the writes of a patch stay in the stride of the patch as long as every
\* bucket that is written as a whole array has no other call-site, and the outer
\* factors of an isoline are not written as an array
WritesInsideStrideWithOneArraySite ==
  (/\ pc = "done"
   /\ ~(cfg.primMode = "iso" /\ WrittenAsArray("outer"))
   /\ \A bucket \in {"outer", "inner"} :
        WrittenAsArray(bucket) => Cardinality(BucketCalls(bucket)) = 1)
    => \A p \in 0..MaxPatch :
         PatchWrites(p) \subseteq {p * tessFactorStride + k : k \in 0..(tessFactorStride - 1)}

-----------------------------------------------------------------------------
(* Specification of the LDS footprint: tessellation pipelines with small and
   large patches, on-chip and off-chip *)

\* the tessellation inputs of processShader, up to 32 locations and
\* MaxTessPatchVertices vertices
FootprintInputs ==
  [inputMapLocCount : {1, 8}, outputMapLocCount : {1, 32}, tesInputMapLocCount : {1},
   perPatchOutputMapLocCount : {0, 2}, tesPerPatchInputMapLocCount : {1},
   patchControlPoints : {1, 3, MaxTessPatchVertices},
   outputVertices : {1, 4, MaxTessPatchVertices}, offChip : BOOLEAN]

InitFootprint ==
  \E m \in CalcModules, gfx \in {8, 10}, primMode \in {"tri", "quad", "iso"},
     tess \in FootprintInputs, gpu \in GpuTargets, waveSize \in {32, 64} :
    LET options == OptionsOf(m.fns, [stage \in {"tcs"} |-> TessLevelMenu], 1) IN
    /\ gpu.waTessFactorBufferSizeLimitGeUtcl1Underflow => gfx = 10
    /\ gpu.miscLoadBalancePerWatt => gfx = 8
    /\ InitModule([Pipeline(m.stages) EXCEPT
                     !.gfx = gfx, !.primMode = primMode, !.tess = tess, !.gpu = gpu,
                     !.waveSize = [stage \in Stages |-> waveSize]],
                   m.fns,
                   SelectSeq(options, LAMBDA call : m.fns[call.fn].entry))

SpecFootprint == InitFootprint /\ [][Next]_vars

-----------------------------------------------------------------------------
(* Properties of the LDS footprint *)

\* the dwords of the LDS that the patches of a thread group take: with on-chip
\* tessellation the inputs, the outputs and the patch constants of the control
\* shader, with off-chip tessellation its inputs
LdsFootprint ==
  calcFactor.patchCountPerThreadGroup
    * (IF cfg.tess.offChip THEN calcFactor.inPatchSize
       ELSE calcFactor.inPatchSize + calcFactor.outPatchSize + calcFactor.patchConstSize)

\* C29 as stated: with on-chip tessellation storage, the computed patch count
\* per thread group is such that the whole LDS footprint, patch count x (input
\* patch size + output patch size + patch-constant size), does not exceed the
\* LDS size available to the thread group.
C29_FootprintWithinLds ==
  (~IsUninitialized(calcFactor) /\ ~cfg.tess.offChip) =>
    LdsFootprint <= cfg.gpu.ldsSizePerThreadGroup

\* the input patches alone are within the LDS size, on-chip and off-chip
InputPatchesWithinLds ==
  ~IsUninitialized(calcFactor) =>
    calcFactor.patchCountPerThreadGroup * calcFactor.inPatchSize
      <= cfg.gpu.ldsSizePerThreadGroup

-----------------------------------------------------------------------------
(* Properties of the offsets of the outputs of the control shader *)

\* an invocation of the control shader for patch p of the thread group, and an
\* invocation of the evaluation shader for the same patch: the one has the
\* patch in RelativeId, the other in the argument relPatchId
TcsInvocation(p, invocationId) == Invocation(0, p, p + 5, invocationId)
TesInvocation(p) == Invocation(0, p + 3, p, 0)

\* the arguments that the two calculators are compared on; Null is a location
\* offset, component or vertex index that the access does not have
OffsetArguments ==
  {32, 64} \X {0, 2} \X {Null, ConstInt(1)} \X {Null, ConstInt(0), ConstInt(1)}
    \X {Null, ConstInt(0), ConstInt(3)}

\* the generic output writes of the control shader and the generic input reads
\* of the evaluation shader
GenericAccesses(stage, kind) ==
  {a \in Accesses(stage) : calls[body[a[1]][a[2]].id].kind = kind}

\* C30: for the same patch, mapped location, location offset, component and
\* vertex index, the offset that calcLdsOffsetForTesInput computes for the read
\* of the evaluation shader equals the offset that calcLdsOffsetForTcsOutput
\* computed for the write of the control shader, for per-vertex values (with a
\* vertex index) and per-patch values (without), with on-chip and with off-chip
\* tessellation; and a generic input read of the evaluation shader addresses
\* the slot that the generic output write of the same dword of the same vertex
\* or patch addressed.
C30_ReadOffsetIsWriteOffset ==
  (pc = "done" /\ rtPos = 0 /\ ~IsUninitialized(calcFactor)) =>
    \A p \in PatchIds :
      /\ \A x \in OffsetArguments :
           Eval(calcLdsOffsetForTesInput(x[1], x[2], x[3], x[4], x[5]), TesInvocation(p))
             = Eval(calcLdsOffsetForTcsOutput(x[1], x[2], x[3], x[4], x[5]),
                    TcsInvocation(p, 0))
      /\ \A a \in GenericAccesses("tcs", "expGeneric"),
            b \in GenericAccesses("tes", "inGeneric"),
            v \in 0..(cfg.tess.outputVertices - 1) :
           \A d \in DOMAIN body[a[1]][a[2]].addr.at, e \in DOMAIN body[b[1]][b[2]].addr.at :
             Datum(a, d, TcsInvocation(p, v)) = Datum(b, e, TesInvocation(p))
               => SlotOf(a, d, TcsInvocation(p, v)) = SlotOf(b, e, TesInvocation(p))

\* C30 witness: with off-chip tessellation the pass has lowered a per-vertex
\* generic output write of the control shader and a read of the output in the
\* evaluation shader, and the read of vertex 1 of the second patch has the datum
\* and the slot of the write.
C30_Witness ==
  /\ pc = "done"
  /\ cfg.tess.offChip
  /\ ~IsUninitialized(calcFactor)
  /\ calcFactor.patchCountPerThreadGroup > 1
  /\ \E a \in GenericAccesses("tcs", "expGeneric"), b \in GenericAccesses("tes", "inGeneric") :
       /\ calls[body[b[1]][b[2]].id].vertex[1] # "none"
       /\ Datum(a, 1, TcsInvocation(1, 1)) = Datum(b, 1, TesInvocation(1))
       /\ SlotOf(a, 1, TcsInvocation(1, 1)) = SlotOf(b, 1, TesInvocation(1))
       /\ SlotOf(a, 1, TcsInvocation(1, 1)) # SlotOf(a, 1, TcsInvocation(0, 1))

=============================================================================
